---- MODULE Spec2Model ----
(***************************************************************************)
(* Model of the co-occurrence graph (src/src/graph.py) and of the ontology *)
(* validator (src/src/validation.py, src/src/utils/ontology_loader.py).    *)
(*                                                                         *)
(* Strings are sequences of one-character strings, so that lower() and     *)
(* strip() are computed character by character.  A networkx Graph is its   *)
(* adjacency dict: adj[u][v] is the weight stored on the edge {u, v}, and  *)
(* networkx keeps adj[u][v] and adj[v][u] on one shared attribute dict.    *)
(***************************************************************************)
EXTENDS Integers, Sequences, FiniteSets, TLC

VARIABLES
    graph,      \* Graph.graph: the adjacency dict of the networkx graph
    before,     \* history variable: Graph.graph when the last call started
    last,       \* history variable: the last call, [op, arg]
    calls,      \* history variable: the add_edge calls the last call made
    ingested,   \* history variable: every item build_graph has iterated over
    direct,     \* history variable: add_edge / build_relations called directly
    used,       \* history variable: size of the input consumed so far
    is_a,       \* the loaded hierarchy: is_a[c] is the list c.is_a
    dist_cache,       \* GraphValidator._dist_cache
    ancestors_cache,  \* GraphValidator._ancestors_cache
    dcall,      \* history variable: arguments of the last distance call
    dret,       \* history variable: value the last distance call returned
    bfs,        \* the frame of a running get_ancestors_dist
    known_terms,    \* GraphValidator.known_terms
    use_rapidfuzz,  \* _USE_RAPIDFUZZ: whether rapidfuzz could be imported
    tcall,      \* history variable: the last call on a term, [op, term]
    tret,       \* history variable: what that call returned
    consulted,  \* history variable: that call ran the fuzzy matcher
    vgraph,     \* the graph handed to the validator, as graph.edges() yields it
    ecall,      \* history variable: "validate_edges" once it has run
    ereport,    \* the report validate_edges returned
    elog,       \* history variable: per edge, what its loop iteration decided
    sources,    \* history variable: what load_from_url returned, per URL
    ontologies, \* GraphValidator.ontologies
    vnodes,     \* the nodes of the graph handed to the validator
    gcall,      \* history variable: "validate_graph" once it has run
    greport,    \* the report validate_graph returned
    pcall,      \* the arguments of LinkPredictor.predict, and whether it ran
    preds,      \* history variable: the list the predictor enumerated
    pret,       \* the list predict returned
    label_to_class, \* OntologyLoader.label_to_class: label -> list of classes
    disk,       \* the files of the cache directory: name -> content
    todo,       \* the URLs the constructor has still to load
    loads,      \* history variable: per load, what load_from_url did
    answered    \* history variable: how the last distance call was answered

gvars == <<graph, before, last, calls, ingested, direct, used>>

dvars == <<is_a, dist_cache, ancestors_cache, dcall, dret, bfs>>

tvars == <<known_terms, use_rapidfuzz, tcall, tret, consulted>>

evars == <<vgraph, ecall, ereport, elog>>

ovars == <<sources, ontologies, label_to_class>>

rvars == <<vnodes, gcall, greport>>

pvars == <<pcall, preds, pret>>

lvars == <<disk, todo, loads>>
hvars == <<answered>>

vars == <<gvars, dvars, tvars, evars, ovars, rvars, pvars, lvars, hvars>>

(***************************************************************************)
(* Bounds                                                                  *)
(***************************************************************************)
\* Total size of the input of one run of the graph model: one unit per
\* entity mention, per item without mentions, per direct add_edge call.
MaxInput == 4

\* Number of is-a links (entries of the is_a lists) of a loaded hierarchy.
MaxIsA == 3

\* Length of the longest term (without padding) handed to _choose_cutoff.
MaxTermLen == 21

\* Number of blanks put before and after such a term.
MaxPad == 1

\* Number of edges of a graph handed to validate_edges.
MaxEdges == 2

\* The largest top_k handed to LinkPredictor.predict.
MaxK == 3

\* Number of ontology URLs handed to the constructor of the validator.
MaxUrls == 2

(***************************************************************************)
(* Strings                                                                 *)
(***************************************************************************)
Whitespace == {" "}

\* str.lower() on one character
LowerChar(c) ==
    CASE c = "A" -> "a"
      [] c = "B" -> "b"
      [] c = "C" -> "c"
      [] c = "N" -> "n"
      [] OTHER -> c

\* str.lower()
Lower(s) == [i \in 1..Len(s) |-> LowerChar(s[i])]

RECURSIVE LStrip(_)
LStrip(s) ==
    IF s # <<>> /\ Head(s) \in Whitespace THEN LStrip(Tail(s)) ELSE s

RECURSIVE RStrip(_)
RStrip(s) ==
    IF s # <<>> /\ s[Len(s)] \in Whitespace
    THEN RStrip(SubSeq(s, 1, Len(s) - 1))
    ELSE s

\* str.strip()
Strip(s) == RStrip(LStrip(s))

\* A mutation of the normalization: the whitespace stays.
Normalize_unstripped(raw) == Lower(raw)

\* e["entity"].lower().strip()   (graph.py:25)
Normalize(raw) == Strip(Lower(raw))

\* The entity strings the upstream extraction hands over.
RawNames == { <<"a">>, <<"A", " ">>, <<" ", "b">>, <<"c">> }

\* The node names direct callers of add_edge / build_relations use.
NodeNames == { Normalize(r) : r \in RawNames }

(***************************************************************************)
(* networkx.Graph                                                          *)
(***************************************************************************)
\* nx.Graph()
EmptyGraph == << >>

Nodes(g) == DOMAIN g

\* Graph.has_edge(u, v)
has_edge(g, u, v) == u \in DOMAIN g /\ v \in DOMAIN g[u]

\* The unordered pairs that are edges; a self-loop is the singleton {u}.
Edges(g) ==
    { {p[1], p[2]} : p \in { q \in (DOMAIN g) \X (DOMAIN g) :
                                q[2] \in DOMAIN g[q[1]] } }

\* Graph.number_of_edges()
number_of_edges(g) == Cardinality(Edges(g))

\* G[u][v]["weight"]
Weight(g, u, v) == g[u][v]

\* dict with key k set to value x
Put(f, k, x) == [y \in (DOMAIN f) \cup {k} |-> IF y = k THEN x ELSE f[y]]

\* Graph.add_edge(u, v, weight=w): both nodes are added when missing and the
\* one attribute dict of the edge is stored under adj[u][v] and adj[v][u].
nx_add_edge(g, u, v, w) ==
    LET g1 == IF u \in DOMAIN g THEN g ELSE Put(g, u, << >>)
        g2 == IF v \in DOMAIN g1 THEN g1 ELSE Put(g1, v, << >>)
        g3 == Put(g2, u, Put(g2[u], v, w))
    IN  Put(g3, v, Put(g3[v], u, w))

\* A mutation of the weight update: the two directions of an edge hold
\* separate attribute dicts, and only adj[u][v] is updated.
nx_set_weight_one_way(g, u, v, w) == Put(g, u, Put(g[u], v, w))

\* G[u][v]["weight"] = w on an existing edge: the dict is shared by both
\* directions.
nx_set_weight(g, u, v, w) ==
    LET g3 == Put(g, u, Put(g[u], v, w))
    IN  Put(g3, v, Put(g3[v], u, w))

(***************************************************************************)
(* Graph (graph.py)                                                        *)
(*                                                                         *)
(* The methods act on a run state [graph, calls]: the networkx graph and   *)
(* the log of the add_edge calls made so far, each tagged with the index   *)
(* of the build_graph item it was made for (0 for a direct call).          *)
(***************************************************************************)
\* A mutation of add_edge: an existing edge is overwritten with weight 1.
add_edge_overwrite(g, source, target) == nx_add_edge(g, source, target, 1)

\* Graph.add_edge(source, target)   (graph.py:8-14)
add_edge(g, source, target) ==
    IF has_edge(g, source, target)
    THEN nx_set_weight(g, source, target, Weight(g, source, target) + 1)
    ELSE nx_add_edge(g, source, target, 1)

\* A call of add_edge, logged.
CallAddEdge(rs, item, source, target) ==
    [graph |-> add_edge(rs.graph, source, target),
     calls |-> Append(rs.calls,
                      [item |-> item, source |-> source, target |-> target])]

\* itertools.combinations(names, 2): the pairs <<names[i], names[j]>>, i < j,
\* in lexicographic order of (i, j).
RECURSIVE CombFrom(_, _, _)
CombFrom(names, i, j) ==
    IF i >= Len(names) THEN << >>
    ELSE IF j > Len(names) THEN CombFrom(names, i + 1, i + 2)
    ELSE << <<names[i], names[j]>> >> \o CombFrom(names, i, j + 1)

\* A mutation of combinations: itertools.permutations(names, 2).
permutations2(names) ==
    CombFrom(names, 1, 2) \o
    CombFrom([i \in 1..Len(names) |-> names[Len(names) + 1 - i]], 1, 2)

combinations2(names) == CombFrom(names, 1, 2)

\* The for loop of build_relations over the pairs   (graph.py:19-20)
RECURSIVE AddPairs(_, _, _)
AddPairs(rs, item, pairs) ==
    IF pairs = << >> THEN rs
    ELSE AddPairs(CallAddEdge(rs, item, Head(pairs)[1], Head(pairs)[2]),
                  item, Tail(pairs))

\* Graph.build_relations(entity_names)   (graph.py:16-20)
build_relations(rs, item, entity_names) ==
    AddPairs(rs, item, combinations2(entity_names))

\* [e["entity"].lower().strip() for e in item["entities"]]   (graph.py:25)
NormalizedList(entities) == [i \in 1..Len(entities) |-> Normalize(entities[i])]

Range(s) == { s[i] : i \in 1..Len(s) }

\* A mutation of list(set(...)): the list is kept as it is.
KeepList(entity_names) == { entity_names }

\* list(set(entity_names))   (graph.py:26): the set in any order.
ListOfSet(entity_names) ==
    { s \in [1..Cardinality(Range(entity_names)) -> Range(entity_names)] :
        Range(s) = Range(entity_names) }

\* An item of parsed_entities: has_entities is ("entities" in item).
NoEntities == [has_entities |-> FALSE, entities |-> << >>]

EntityItem(es) == [has_entities |-> TRUE, entities |-> es]

\* The normalized, deduplicated entity set of an item.
EntitySet(item) ==
    IF item.has_entities THEN Range(NormalizedList(item.entities)) ELSE {}

\* One iteration of the for loop of build_graph   (graph.py:24-32): the run
\* states it can end in, one per order list(set(...)) can yield.
build_graph_item(rs, i, item) ==
    IF item.has_entities
    THEN { IF Len(entity_names) < 2
           THEN rs
           ELSE build_relations(rs, i, entity_names)
           : entity_names \in ListOfSet(NormalizedList(item.entities)) }
    ELSE { rs }

\* Graph.build_graph(parsed_entities)   (graph.py:22-32), from item i on.
RECURSIVE build_graph(_, _, _)
build_graph(rs, items, i) ==
    IF i > Len(items) THEN { rs }
    ELSE UNION { build_graph(rs1, items, i + 1)
                 : rs1 \in build_graph_item(rs, i, items[i]) }

(***************************************************************************)
(* Inputs of the graph model                                               *)
(***************************************************************************)
Max(a, b) == IF a >= b THEN a ELSE b

ItemsOfCost(k) ==
    (IF k = 1 THEN {NoEntities, EntityItem(<< >>)} ELSE {})
    \cup { EntityItem(es) : es \in [1..k -> RawNames] }

\* The lists of items of total cost k: an item costs one unit per entity
\* mention, and one unit when it has none.
ItemListsOfCost[k \in 0..(MaxInput + 1)] ==
    IF k = 0 THEN { << >> }
    ELSE UNION { { <<it>> \o rest : it \in ItemsOfCost(c),
                                    rest \in ItemListsOfCost[k - c] }
                 : c \in 1..k }

NameLists(k) == [1..k -> NodeNames]

(***************************************************************************)
(* Operations on the graph                                                 *)
(***************************************************************************)
GraphNew ==
    /\ graph = EmptyGraph
    /\ before = EmptyGraph
    /\ last = [op |-> "init", arg |-> << >>]
    /\ calls = << >>
    /\ ingested = << >>
    /\ direct = FALSE
    /\ used = 0

Started(g) == [graph |-> g, calls |-> << >>]

\* g.add_edge(a, b), called directly
AddEdge(a, b) ==
    /\ used + 1 <= MaxInput
    /\ LET rs == CallAddEdge(Started(graph), 0, a, b)
       IN  graph' = rs.graph /\ calls' = rs.calls
    /\ before' = graph
    /\ last' = [op |-> "add_edge", arg |-> <<a, b>>]
    /\ direct' = TRUE
    /\ used' = used + 1
    /\ UNCHANGED ingested

\* g.build_relations(names), called directly
BuildRelations(names) ==
    /\ used + Max(1, Len(names)) <= MaxInput
    /\ LET rs == build_relations(Started(graph), 0, names)
       IN  graph' = rs.graph /\ calls' = rs.calls
    /\ before' = graph
    /\ last' = [op |-> "build_relations", arg |-> names]
    /\ direct' = TRUE
    /\ used' = used + Max(1, Len(names))
    /\ UNCHANGED ingested

\* g.build_graph(items) / g.run(items), items of total cost k
BuildGraph(items, k) ==
    /\ \E rs \in build_graph(Started(graph), items, 1) :
         graph' = rs.graph /\ calls' = rs.calls
    /\ before' = graph
    /\ last' = [op |-> "build_graph", arg |-> items]
    /\ ingested' = ingested \o items
    /\ used' = used + k
    /\ UNCHANGED direct

\* The total cost of a list of items.
RECURSIVE CostOf(_)
CostOf(items) ==
    IF items = << >> THEN 0
    ELSE Max(1, Len(Head(items).entities)) + CostOf(Tail(items))

\* The lists of records that mention two entities or more each, of total
\* cost k.
RECURSIVE RecordListsOfCost(_)
RecordListsOfCost(k) ==
    IF k = 0 THEN { << >> }
    ELSE UNION { { <<EntityItem(es)>> \o rest : es \in [1..c -> RawNames],
                                                rest \in RecordListsOfCost(k - c) }
                 : c \in 2..k }

RecordLists == UNION { RecordListsOfCost(k) : k \in 0..MaxInput }

\* A new graph and the list of items build_graph is about to be given.
GraphWithInput ==
    /\ graph = EmptyGraph
    /\ before = EmptyGraph
    /\ last \in { [op |-> "init", arg |-> items] : items \in RecordLists }
    /\ calls = << >>
    /\ ingested = << >>
    /\ direct = FALSE
    /\ used = 0

(***************************************************************************)
(* Concepts and the is-a hierarchy                                         *)
(*                                                                         *)
(* A concept is an owlready2 class, identified by its name; its IRI is the *)
(* base IRI of the world followed by the name.  is_a[c] is the list c.is_a *)
(* of direct superclasses, which may hold restrictions: constructs that    *)
(* have no name attribute.                                                 *)
(***************************************************************************)
neuron == <<"n", "e", "u", "r", "o", "n">>

cortex == <<"c", "o", "r", "t", "e", "x">>

Brain == <<"B", "r", "a", "i", "n">>

Concepts == { neuron, cortex, Brain }

\* A construct such as "part_of some X": no name attribute, no is_a.
Restriction == <<"?">>

BaseIri == <<"o", "#">>

\* c.iri
Iri(c) == BaseIri \o c

\* ord(ch) for the characters of the model
Ord(ch) ==
    CASE ch = " " -> 32
      [] ch = "#" -> 35
      [] ch = "-" -> 45
      [] ch = "?" -> 63
      [] ch = "A" -> 65
      [] ch = "B" -> 66
      [] ch = "C" -> 67
      [] ch = "N" -> 78
      [] ch = "a" -> 97
      [] ch = "b" -> 98
      [] ch = "c" -> 99
      [] ch = "e" -> 101
      [] ch = "i" -> 105
      [] ch = "n" -> 110
      [] ch = "o" -> 111
      [] ch = "r" -> 114
      [] ch = "s" -> 115
      [] ch = "t" -> 116
      [] ch = "u" -> 117
      [] ch = "x" -> 120

\* s < t on Python strings: lexicographic by code point
RECURSIVE StrLess(_, _)
StrLess(s, t) ==
    IF t = << >> THEN FALSE
    ELSE IF s = << >> THEN TRUE
    ELSE IF Head(s) = Head(t) THEN StrLess(Tail(s), Tail(t))
    ELSE Ord(Head(s)) < Ord(Head(t))

\* tuple(sorted((x, y)))
SortedPair(x, y) == IF StrLess(y, x) THEN <<y, x>> ELSE <<x, y>>

\* Lists without repetition over S, of length at most n.
DistinctLists(S, n) ==
    UNION { { q \in [1..k -> S] : \A i \in 1..k : \A j \in 1..k :
                                    q[i] = q[j] => i = j }
            : k \in 0..n }

\* The hierarchies a loaded ontology can hold: each concept lists distinct
\* direct superclasses (concepts, itself included when the ontology is
\* malformed, and restrictions), MaxIsA links in all.
SumLen(h) ==
    LET RECURSIVE Sum(_)
        Sum(S) == IF S = {} THEN 0
                  ELSE LET c == CHOOSE x \in S : TRUE
                       IN  Len(h[c]) + Sum(S \ {c})
    IN  Sum(DOMAIN h)

Hierarchies ==
    { h \in [Concepts -> DistinctLists(Concepts \cup {Restriction}, MaxIsA)] :
        SumLen(h) <= MaxIsA }

\* hasattr(p, 'name')   (validation.py:205)
HasName(p) == p # Restriction

\* float('inf'): greater than every hop count
Inf == 1000000

(***************************************************************************)
(* GraphValidator._calculate_semantic_distance (validation.py:169-231)     *)
(***************************************************************************)
\* _id_of(c)   (validation.py:177-178): the iri is never empty
id_of(c) == Iri(c)

\* A mutation of the key: the identifier of the first concept alone.
CacheKey_first(cls_a, cls_b) == <<id_of(cls_a), id_of(cls_a)>>

\* tuple(sorted((_id_of(cls_a), _id_of(cls_b))))   (validation.py:180)
CacheKey(cls_a, cls_b) == SortedPair(id_of(cls_a), id_of(cls_b))

\* A mutation of the visited test: a parent is taken again unless it is the
\* node being expanded.
Unvisited_only_self(p, curr, dists) == p # curr

\* p not in dists   (validation.py:205)
Unvisited(p, curr, dists) == p \notin DOMAIN dists

\* for p in parents: ...   (validation.py:203-207) on the frame
\* [start, dists, queue, idx]
RECURSIVE VisitParents(_, _, _, _)
VisitParents(fr, curr, curr_dist, parents) ==
    IF parents = << >> THEN fr
    ELSE LET p == Head(parents)
             fr1 == IF HasName(p) /\ Unvisited(p, curr, fr.dists)
                    THEN [fr EXCEPT !.dists = Put(fr.dists, p, curr_dist + 1),
                                    !.queue = Append(fr.queue, p)]
                    ELSE fr
         IN  VisitParents(fr1, curr, curr_dist, Tail(parents))

\* One iteration of the while loop   (validation.py:192-207); idx counts
\* from 0 as in the code.
BfsIteration(h, fr) ==
    LET curr == fr.queue[fr.idx + 1]
        fr1 == [fr EXCEPT !.idx = fr.idx + 1]
    IN  VisitParents(fr1, curr, fr.dists[curr], h[curr])

\* dists = {start_node: 0}; queue = [start_node]; idx = 0  (validation.py:189-191)
BfsFrame(start_node) ==
    [start |-> start_node,
     dists |-> Put(<< >>, start_node, 0),
     queue |-> <<start_node>>,
     idx |-> 0]

\* while idx < len(queue): ...   (validation.py:192-207)
RECURSIVE BfsLoop(_, _)
BfsLoop(h, fr) ==
    IF fr.idx < Len(fr.queue) THEN BfsLoop(h, BfsIteration(h, fr)) ELSE fr

\* get_ancestors_dist(start_node)   (validation.py:185-211): the map
\* returned and the ancestor cache afterwards.
get_ancestors_dist(h, ac, start_node) ==
    IF start_node \in DOMAIN ac
    THEN [dists |-> ac[start_node], ac |-> ac]
    ELSE LET dists == BfsLoop(h, BfsFrame(start_node)).dists
         IN  [dists |-> dists, ac |-> Put(ac, start_node, dists)]

\* A mutation of the sum: only the hops from cls_a are counted.
MinHopsFromA(common, dists_a, dists_b) ==
    CHOOSE d \in { dists_a[anc] : anc \in common } :
        \A anc \in common : d <= dists_a[anc]

\* set(dists_a.keys()) & set(dists_b.keys())   (validation.py:217)
CommonAncestors(dists_a, dists_b) == (DOMAIN dists_a) \cap (DOMAIN dists_b)

\* A mutation of the minimum: the sum at the first common ancestor found.
FirstSum(common, dists_a, dists_b) ==
    LET anc == CHOOSE x \in common : TRUE
    IN  dists_a[anc] + dists_b[anc]

\* min_dist = inf; for anc in common: ...   (validation.py:224-228)
MinSum(common, dists_a, dists_b) ==
    LET RECURSIVE Loop(_, _)
        Loop(rest, min_dist) ==
            IF rest = {} THEN min_dist
            ELSE LET anc == CHOOSE x \in rest : TRUE
                     d == dists_a[anc] + dists_b[anc]
                 IN  Loop(rest \ {anc}, IF d < min_dist THEN d ELSE min_dist)
    IN  Loop(common, Inf)

\* _calculate_semantic_distance(cls_a, cls_b)   (validation.py:169-231): the
\* value returned and both caches afterwards.
calculate_semantic_distance(h, dc, ac, cls_a, cls_b) ==
    IF cls_a = cls_b THEN [ret |-> 0, dc |-> dc, ac |-> ac]
    ELSE LET key == CacheKey(cls_a, cls_b)
         IN  IF key \in DOMAIN dc THEN [ret |-> dc[key], dc |-> dc, ac |-> ac]
             ELSE LET ra == get_ancestors_dist(h, ac, cls_a)
                      rb == get_ancestors_dist(h, ra.ac, cls_b)
                      common == CommonAncestors(ra.dists, rb.dists)
                  IN  IF common = {}
                      THEN [ret |-> Inf, dc |-> Put(dc, key, Inf), ac |-> rb.ac]
                      ELSE LET min_dist == MinSum(common, ra.dists, rb.dists)
                           IN  [ret |-> min_dist,
                                dc |-> Put(dc, key, min_dist),
                                ac |-> rb.ac]

(***************************************************************************)
(* The fuzzy matchers: rapidfuzz (fuzz.ratio, process.extractOne) and the  *)
(* difflib fallback (get_close_matches).  A similarity is the fraction     *)
(* num / den of 100 * 2 * matches over the two lengths, kept exact.        *)
(***************************************************************************)
None == <<"None">>

Min(a, b) == IF a <= b THEN a ELSE b

\* One row of the longest-common-subsequence table: prev is the row of the
\* previous character of s, ch the current one.
RECURSIVE LcsRow(_, _, _, _)
LcsRow(prev, ch, t, row) ==
    IF Len(row) = Len(t) THEN row
    ELSE LET j == Len(row) + 1
             diag == IF j = 1 THEN 0 ELSE prev[j - 1]
             left == IF j = 1 THEN 0 ELSE row[j - 1]
             cell == IF ch = t[j] THEN diag + 1 ELSE Max(prev[j], left)
         IN  LcsRow(prev, ch, t, Append(row, cell))

RECURSIVE LcsRows(_, _, _, _)
LcsRows(s, t, i, prev) ==
    IF i > Len(s) THEN prev
    ELSE LET row == LcsRow(prev, s[i], t, << >>)
         IN  IF Len(row) = Len(t) THEN LcsRows(s, t, i + 1, row) ELSE row

\* Length of the longest common subsequence of s and t.
LcsLen(s, t) ==
    IF s = << >> \/ t = << >> THEN 0
    ELSE LcsRows(s, t, 1, [j \in 1..Len(t) |-> 0])[Len(t)]

\* rapidfuzz.fuzz.ratio(s, t): the normalized Indel similarity, 0..100
fuzz_ratio(s, t) ==
    IF Len(s) + Len(t) = 0 THEN [num |-> 100, den |-> 1]
    ELSE [num |-> 200 * LcsLen(s, t), den |-> Len(s) + Len(t)]

\* x >= y and x > y on similarities; n is an integer
ScoreAtLeast(x, n) == x.num >= n * x.den

ScoreGreater(x, y) == x.num * y.den > y.num * x.den

ScoreEqual(x, y) == x.num * y.den = y.num * x.den

\* The longest block a[i..i+k-1] = b[j..j+k-1], earliest in a and then
\* earliest in b: SequenceMatcher.find_longest_match without junk.
LongestMatch(a, b) ==
    LET blocks == { m \in (1..Len(a)) \X (1..Len(b)) \X (1..Min(Len(a), Len(b))) :
                      /\ m[1] + m[3] - 1 <= Len(a)
                      /\ m[2] + m[3] - 1 <= Len(b)
                      /\ SubSeq(a, m[1], m[1] + m[3] - 1)
                           = SubSeq(b, m[2], m[2] + m[3] - 1) }
        Greatest(S) == CHOOSE x \in S : \A y \in S : y <= x
        Least(S) == CHOOSE x \in S : \A y \in S : x <= y
    IN  IF blocks = {} THEN <<1, 1, 0>>
        ELSE LET k == Greatest({ m[3] : m \in blocks })
                 i == Least({ m[1] : m \in { o \in blocks : o[3] = k } })
                 j == Least({ m[2] : m \in { o \in blocks : o[3] = k /\ o[1] = i } })
             IN  <<i, j, k>>

\* Number of matched characters of SequenceMatcher(None, a, b): the longest
\* block, then the same to its left and to its right.
RECURSIVE MatchingChars(_, _)
MatchingChars(a, b) ==
    IF a = << >> \/ b = << >> THEN 0
    ELSE LET m == LongestMatch(a, b)
         IN  IF m[3] = 0 THEN 0
             ELSE m[3]
                  + MatchingChars(SubSeq(a, 1, m[1] - 1), SubSeq(b, 1, m[2] - 1))
                  + MatchingChars(SubSeq(a, m[1] + m[3], Len(a)),
                                  SubSeq(b, m[2] + m[3], Len(b)))

\* SequenceMatcher(None, a, b).ratio(), scaled to 0..100
difflib_ratio(a, b) ==
    IF Len(a) + Len(b) = 0 THEN [num |-> 100, den |-> 1]
    ELSE [num |-> 200 * MatchingChars(a, b), den |-> Len(a) + Len(b)]

\* The vocabulary is [labels, filler]: the labels the model spells out and
\* the number of further labels, which share no character with any term of
\* the model (similarity 0 to each of them).
Vocabulary(labels, filler) == [labels |-> labels, filler |-> filler]

\* len(self.known_terms) if self.known_terms else 0   (validation.py:66)
VocabSize(kt) == Cardinality(kt.labels) + kt.filler

\* process.extractOne(query, choices, scorer=fuzz.ratio, score_cutoff=cutoff):
\* the results it can return, None or <<label, score>>; among the labels of
\* the highest similarity the one the set yields first wins.
extractOne(query, kt, cutoff) ==
    LET ratio(l) == fuzz_ratio(query, l)
        scored == { <<l, ratio(l)>> : l \in kt.labels }
        ok == { p \in scored : ScoreAtLeast(p[2], cutoff) }
        best == { p \in ok : \A o \in ok : ~ScoreGreater(o[2], p[2]) }
    IN  IF best = {} THEN { None } ELSE best

\* difflib.get_close_matches(word, possibilities, n, cutoff=cutoff/100.0):
\* the list returned, cut to its head, which is what both callers read; of
\* the best candidates the greatest string comes first.
get_close_matches1(word, kt, cutoff) ==
    LET ratio(x) == difflib_ratio(x, word)
        scored == { <<l, ratio(l)>> : l \in kt.labels }
        ok == { p \in scored : ScoreAtLeast(p[2], cutoff) }
        best == { p \in ok : \A o \in ok :
                    \/ ScoreGreater(p[2], o[2])
                    \/ ScoreEqual(p[2], o[2]) /\ ~StrLess(p[1], o[1]) }
    IN  IF best = {} THEN << >> ELSE << (CHOOSE p \in best : TRUE)[1] >>

(***************************************************************************)
(* GraphValidator._choose_cutoff and validate_term (validation.py:46-99)   *)
(***************************************************************************)
\* A mutation of the cutoff: the result is not clamped.
choose_cutoff_unclamped(term, kt) ==
    LET length == Len(Lower(Strip(term)))
        vocab == VocabSize(kt)
    IN  85 + (IF length <= 3 THEN 10 ELSE IF length <= 6 THEN 5 ELSE 0)
           - (IF length >= 20 THEN 10 ELSE 0)
           + (IF vocab > 10000 THEN 5 ELSE IF vocab > 1000 THEN 2 ELSE 0)

\* GraphValidator._choose_cutoff(term)   (validation.py:46-72)
choose_cutoff(term, kt) ==
    LET t == Lower(Strip(term))
        length == Len(t)
        base0 == 85
        base1 == IF length <= 3 THEN base0 + 10
                 ELSE IF length <= 6 THEN base0 + 5
                 ELSE base0
        base2 == IF length >= 20 THEN base1 - 10 ELSE base1
        vocab == VocabSize(kt)
        base3 == IF vocab > 10000 THEN base2 + 5
                 ELSE IF vocab > 1000 THEN base2 + 2
                 ELSE base2
    IN  Max(50, Min(98, base3))

NoScore == [num |-> 0, den |-> 0]

Result(status, match, type, has_score, score) ==
    [status |-> status, match |-> match, type |-> type,
     has_score |-> has_score, score |-> score]

Invalid == Result("invalid", None, "none", FALSE, NoScore)

\* A mutation of the exact lookup: the term is looked up as given.
InVocabulary_as_given(term, term_lower, kt) == term \in kt.labels

\* term_lower in self.known_terms   (validation.py:80)
InVocabulary(term, term_lower, kt) == term_lower \in kt.labels

\* GraphValidator.validate_term(term)   (validation.py:74-99): the outcomes
\* [ret, consulted] it can have; consulted tells that extractOne or
\* get_close_matches was called.
validate_term(term, kt, rapidfuzz) ==
    LET term_lower == Lower(term)
    IN  IF InVocabulary(term, term_lower, kt)
        THEN { [ret |-> Result("valid", term_lower, "exact", FALSE, NoScore),
                consulted |-> FALSE] }
        ELSE LET cutoff == choose_cutoff(term_lower, kt)
             IN  IF rapidfuzz /\ VocabSize(kt) > 0
                 THEN { [ret |-> IF match = None THEN Invalid
                                 ELSE Result("valid", match[1], "fuzzy",
                                             TRUE, match[2]),
                         consulted |-> TRUE]
                        : match \in extractOne(term_lower, kt, cutoff) }
                 ELSE IF VocabSize(kt) > 0
                 THEN LET matches == get_close_matches1(term_lower, kt, cutoff)
                      IN  { [ret |-> IF matches # << >>
                                     THEN Result("valid", matches[1], "fuzzy",
                                                 FALSE, NoScore)
                                     ELSE Invalid,
                             consulted |-> TRUE] }
                 ELSE { [ret |-> Invalid, consulted |-> FALSE] }

(***************************************************************************)
(* Concept resolution: the loader's label index, the owlready2 search and  *)
(* GraphValidator._get_ontology_class (validation.py:101-167).  Of the     *)
(* classes of the model, Brain alone carries an rdfs:label annotation.     *)
(***************************************************************************)
\* c.label
LabelsOf(c) == IF c = Brain THEN { <<"b", "r", "a", "i", "n">> } ELSE {}

\* The keys under which _add_labels_from_ontology files class c
\* (ontology_loader.py:85-92)
IndexLabels(c) == { Lower(c) } \cup { Lower(l) : l \in LabelsOf(c) }

\* loader.get_classes_by_label(label): the classes of the list; which of
\* them comes first is the order of ontology.classes().
get_classes_by_label(h, label) ==
    { c \in DOMAIN h : Lower(label) \in IndexLabels(c) }

\* onto.search(label = value, _case_sensitive=False), value without wildcard
search_label(h, value) ==
    { c \in DOMAIN h : \E l \in LabelsOf(c) : Lower(l) = Lower(value) }

IsSuffix(s, t) ==
    Len(s) <= Len(t) /\ SubSeq(t, Len(t) - Len(s) + 1, Len(t)) = s

\* onto.search(iri = "*" + term, _case_sensitive=False), term without wildcard
search_iri_suffix(h, term) ==
    { c \in DOMAIN h : IsSuffix(Lower(term), Lower(Iri(c))) }

\* best_score - second_score >= n
ScoreGap(x, y, n) == x.num * y.den - y.num * x.den >= n * x.den * y.den

\* process.extract(query, choices, scorer=fuzz.ratio, limit=2): the lists it
\* can return, as <<best_label, best_score, has_second, second_score>>;
\* labels of one similarity come in the order the set yields them.
extract2(query, kt) ==
    LET ratio(l) == fuzz_ratio(query, l)
        scored == { <<l, ratio(l)>> : l \in kt.labels }
        zero == [num |-> 0, den |-> 1]
        Top(S) == { p \in S : \A o \in S : ~ScoreGreater(o[2], p[2]) }
    IN  UNION { LET rest == scored \ {b}
                IN  IF rest # {}
                    THEN { <<b[1], b[2], TRUE, o[2]>> : o \in Top(rest) }
                    ELSE IF kt.filler > 0
                    THEN { <<b[1], b[2], TRUE, zero>> }
                    ELSE { <<b[1], b[2], FALSE, zero>> }
                : b \in Top(scored) }

\* The label the fuzzy fallback settles on, or None   (validation.py:130-156)
fuzzy_label(term_lower, kt, rapidfuzz) ==
    LET cutoff == choose_cutoff(term_lower, kt)
    IN  IF rapidfuzz /\ VocabSize(kt) > 0
        THEN IF kt.labels = {} THEN { None }
             ELSE { IF \/ ScoreAtLeast(cand[2], cutoff)
                       \/ /\ cand[3]
                          /\ ScoreGap(cand[2], cand[4], 10)
                          /\ ScoreAtLeast(cand[2], cutoff - 5)
                    THEN cand[1] ELSE None
                    : cand \in extract2(term_lower, kt) }
        ELSE IF VocabSize(kt) > 0
        THEN LET matches == get_close_matches1(term_lower, kt, cutoff)
             IN  { IF matches # << >> THEN matches[1] ELSE None }
        ELSE { None }

\* GraphValidator._get_ontology_class(term): the classes it can return, or
\* None.  res[0] and classes[0] are any class of the result.
get_ontology_class(term, h, kt, rapidfuzz) ==
    LET term_lower == Lower(term)
        classes == get_classes_by_label(h, term_lower)
    IN  IF classes # {} THEN classes
        ELSE IF DOMAIN h # {} /\ search_label(h, term_lower) # {}
        THEN search_label(h, term_lower)
        ELSE IF DOMAIN h # {} /\ search_iri_suffix(h, term) # {}
        THEN search_iri_suffix(h, term)
        ELSE UNION { IF match_label = None THEN { None }
                     ELSE IF get_classes_by_label(h, match_label) # {}
                     THEN get_classes_by_label(h, match_label)
                     ELSE IF search_label(h, match_label) # {}
                     THEN search_label(h, match_label)
                     ELSE { None }
                     : match_label \in fuzzy_label(term_lower, kt, rapidfuzz) }

\* A mutation of the lookup: the class listed last under the label.
First_last(classes) == classes[Len(classes)]

\* classes[0]   (validation.py:110, 140, 153)
First(classes) == classes[1]

\* loader.get_classes_by_label(label) on the label index: a copy of the
\* list filed under the lower-cased label   (ontology_loader.py:94-100)
classes_by_label(index, label) ==
    IF Lower(label) \in DOMAIN index THEN index[Lower(label)] ELSE << >>

\* The classes of one ontology, as a hierarchy to search in.
ClassesOf(onto) == [c \in onto.classes |-> << >>]

\* The loop over self.ontologies from the i-th on: what the first ontology
\* with a result finds by label or else by IRI suffix   (validation.py:117-127)
RECURSIVE SearchOntologies(_, _, _, _)
SearchOntologies(onts, i, term_lower, term) ==
    IF i > Len(onts) THEN {}
    ELSE LET by_label == search_label(ClassesOf(onts[i]), term_lower)
             by_iri == search_iri_suffix(ClassesOf(onts[i]), term)
         IN  IF by_label # {} THEN by_label
             ELSE IF by_iri # {} THEN by_iri
             ELSE SearchOntologies(onts, i + 1, term_lower, term)

\* The final loop over self.ontologies, by label only   (validation.py:159-165)
RECURSIVE SearchLabels(_, _, _)
SearchLabels(onts, i, match_label) ==
    IF i > Len(onts) THEN {}
    ELSE LET res == search_label(ClassesOf(onts[i]), match_label)
         IN  IF res # {} THEN res ELSE SearchLabels(onts, i + 1, match_label)

\* GraphValidator._get_ontology_class(term) on the label index and the list
\* of ontologies: what it can return, with the strategies it consulted in
\* their order.  res[0] is any class of a search result.
get_ontology_class_steps(term, index, onts, kt, rapidfuzz) ==
    LET term_lower == Lower(term)
        classes == classes_by_label(index, term_lower)
        found == SearchOntologies(onts, 1, term_lower, term)
    IN  IF classes # << >>
        THEN { [ret |-> First(classes), consulted |-> <<"index">>] }
        ELSE IF found # {}
        THEN { [ret |-> c, consulted |-> <<"index", "search">>] : c \in found }
        ELSE UNION {
               LET steps == <<"index", "search", "fuzzy">>
                   listed == IF match_label = None THEN << >>
                             ELSE classes_by_label(index, match_label)
                   res == IF match_label = None THEN {}
                          ELSE SearchLabels(onts, 1, match_label)
               IN  IF match_label = None THEN { [ret |-> None, consulted |-> steps] }
                   ELSE IF listed # << >>
                   THEN { [ret |-> First(listed), consulted |-> steps] }
                   ELSE IF res # {}
                   THEN { [ret |-> c, consulted |-> steps] : c \in res }
                   ELSE { [ret |-> None, consulted |-> steps] }
               : match_label \in fuzzy_label(term_lower, kt, rapidfuzz) }

(***************************************************************************)
(* GraphValidator.validate_edges (validation.py:233-275)                   *)
(***************************************************************************)
\* dist = None   (validation.py:253)
NoDistance == 0 - 1

\* f"{u}--{v}"   (validation.py:270)
EdgeKey(u, v) == u \o <<"-", "-">> \o v

\* A mutation of the classification: every distance of 5 or more is weak.
EdgeStatus_finite(dist) == IF dist < 5 THEN "strong" ELSE "weak"

\* A mutation of the classification: a distance of 5 is still strong.
EdgeStatus_inclusive(dist) ==
    IF dist <= 5 THEN "strong"
    ELSE IF dist < Inf THEN "weak"
    ELSE "disconnected"

\* status of an edge with both endpoints resolved   (validation.py:257-264)
EdgeStatus(dist) ==
    IF dist < 5 THEN "strong"
    ELSE IF dist < Inf THEN "weak"
    ELSE "disconnected"

\* report, total_dist and count_dist before the loop   (validation.py:237-246)
EdgesFrame(view, dc, ac) ==
    [report |-> [total_edges |-> Len(view), valid_rels |-> 0, weak_rels |-> 0,
                 avg_distance |-> [num |-> 0, den |-> 1], details |-> << >>],
     total_dist |-> 0, count_dist |-> 0, log |-> << >>, dc |-> dc, ac |-> ac]

\* A mutation of the loop: whatever lies below infinity is averaged.
Averaged_any(known, dist) == dist < Inf

\* if cls_u and cls_v: ... if dist < float('inf'):   (validation.py:255, 266)
Averaged(known, dist) == known /\ dist < Inf

\* A mutation of validate_edges: the ratio is taken on every graph.
AvgDistance_unguarded(total_dist, count_dist) ==
    [num |-> total_dist, den |-> count_dist]

\* report["avg_distance"]: 0.0, or total_dist / count_dist
\* (validation.py:241, 272-273)
AvgDistance(total_dist, count_dist) ==
    IF count_dist > 0
    THEN [num |-> total_dist, den |-> count_dist]
    ELSE [num |-> 0, den |-> 1]

\* One iteration of the loop, cls_u and cls_v resolved   (validation.py:252-270)
EdgeIteration(es, h, u, v, cls_u, cls_v) ==
    LET known == cls_u # None /\ cls_v # None
        r == IF known
             THEN calculate_semantic_distance(h, es.dc, es.ac, cls_u, cls_v)
             ELSE [ret |-> NoDistance, dc |-> es.dc, ac |-> es.ac]
        status == IF known THEN EdgeStatus(r.ret) ELSE "unknown_nodes"
        finite == Averaged(known, r.ret)
        entry == [status |-> status, distance |-> r.ret]
    IN  [report |-> [es.report EXCEPT
                       !.valid_rels = IF status = "strong" THEN @ + 1 ELSE @,
                       !.weak_rels = IF status = "weak" THEN @ + 1 ELSE @,
                       !.details = Put(@, EdgeKey(u, v), entry)],
         total_dist |-> IF finite THEN es.total_dist + r.ret ELSE es.total_dist,
         count_dist |-> IF finite THEN es.count_dist + 1 ELSE es.count_dist,
         log |-> Append(es.log, [u |-> u, v |-> v, cls_u |-> cls_u,
                                 cls_v |-> cls_v, status |-> status,
                                 distance |-> r.ret]),
         dc |-> r.dc,
         ac |-> r.ac]

\* What self._get_ontology_class can return for each node of the edges:
\* pairs of a node and a class or None.  The validator's state does not
\* change in the loop, so a node resolves alike at each of its edges.
Resolutions(view, h, kt, rapidfuzz) ==
    UNION { { <<n, c>> : c \in get_ontology_class(n, h, kt, rapidfuzz) }
            : n \in UNION { {view[i][1], view[i][2]} : i \in 1..Len(view) } }

\* The loop from edge i on: the frames it can end with.
RECURSIVE EdgesLoop(_, _, _, _, _)
EdgesLoop(es, view, i, h, resolutions) ==
    IF i > Len(view) THEN { es }
    ELSE LET u == view[i][1]
             v == view[i][2]
         IN  UNION { EdgesLoop(EdgeIteration(es, h, u, v, ru[2], rv[2]),
                               view, i + 1, h, resolutions)
                     : ru \in { r \in resolutions : r[1] = u },
                       rv \in { r \in resolutions : r[1] = v } }

\* validate_edges(graph): the frames it can end with, avg_distance set
\* (validation.py:272-275)
validate_edges(view, h, dc, ac, kt, rapidfuzz) ==
    { [es EXCEPT !.report.avg_distance = AvgDistance(es.total_dist, es.count_dist)]
      : es \in EdgesLoop(EdgesFrame(view, dc, ac), view, 1, h,
                          Resolutions(view, h, kt, rapidfuzz)) }

(***************************************************************************)
(* OntologyLoader (utils/ontology_loader.py)                               *)
(*                                                                         *)
(* A file of the cache directory is what it holds: whether owlready2 can   *)
(* load it, whether rdflib can parse it in the format its name announces,  *)
(* and the classes it declares.  A path is the file name, the cache        *)
(* directory being the same for every file.                                *)
(***************************************************************************)
\* The orders in which a set can be iterated.
RECURSIVE Orders(_)
Orders(S) ==
    IF S = {} THEN { << >> }
    ELSE UNION { { <<x>> \o o : o \in Orders(S \ {x}) } : x \in S }

\* One of these orders.
RECURSIVE SomeOrder(_)
SomeOrder(S) ==
    IF S = {} THEN << >>
    ELSE LET x == CHOOSE y \in S : TRUE
         IN  <<x>> \o SomeOrder(S \ {x})

\* s.endswith(t)
EndsWith(s, t) == IsSuffix(t, s)

\* t in s
Contains(s, t) ==
    \E i \in 1..(Len(s) - Len(t) + 1) : SubSeq(s, i, i + Len(t) - 1) = t

\* url.split('/')[-1]
LastSegment(url) ==
    LET slashes == { i \in 1..Len(url) : url[i] = "/" }
    IN  IF slashes = {} THEN url
        ELSE SubSeq(url, (CHOOSE i \in slashes : \A j \in slashes : j <= i) + 1,
                    Len(url))

DotOwl == <<".", "o", "w", "l">>

DotTtl == <<".", "t", "t", "l">>

DotNt == <<".", "n", "t">>

DotXml == <<".", "x", "m", "l">>

\* The file name load_from_url derives from the URL
\* (ontology_loader.py:26-32)
DeriveFilename(url) ==
    LET filename == LastSegment(url)
    IN  IF ~EndsWith(filename, DotOwl) /\ ~EndsWith(filename, DotTtl)
        THEN IF \/ Contains(url, <<"t", "t", "l">>)
                \/ Contains(url, <<"t", "u", "r", "t", "l", "e">>)
             THEN filename \o DotTtl
             ELSE filename \o DotOwl
        ELSE filename

\* What load_from_url returns: None, or the ontology with its classes.
NoOntology == [ok |-> FALSE, classes |-> {}]

Ontology(classes) == [ok |-> TRUE, classes |-> classes]

\* A class of a second ontology whose name differs from neuron in case.
Neuron == <<"N", "e", "u", "r", "o", "n">>

FileContent(owlready, rdflib, classes) ==
    [owlready |-> owlready, rdflib |-> rdflib, classes |-> classes]

\* The sources: an RDF/XML ontology; a file that no parser accepts, served
\* under the same last segment; a Turtle ontology; a Turtle file that
\* rdflib rejects; an N-Triples ontology.
UrlOwl == <<"x", "/", "a", ".", "o", "w", "l">>

UrlBad == <<"y", "/", "a", ".", "o", "w", "l">>

UrlTtl == <<"x", "/", "b", ".", "t", "t", "l">>

UrlBadTtl == <<"x", "/", "c", ".", "t", "t", "l">>

UrlNt == <<"x", "/", "d", ".", "n", "t">>

Urls == { UrlOwl, UrlBad, UrlTtl, UrlBadTtl, UrlNt }

\* response.content of a successful requests.get(url)
\* (ontology_loader.py:42-45)
RemoteContent(url) ==
    CASE url = UrlOwl -> FileContent(TRUE, FALSE, { neuron, Brain })
      [] url = UrlBad -> FileContent(FALSE, FALSE, {})
      [] url = UrlTtl -> FileContent(FALSE, TRUE, { cortex, Neuron })
      [] url = UrlBadTtl -> FileContent(FALSE, FALSE, {})
      [] url = UrlNt -> FileContent(TRUE, TRUE, { Brain })

\* g.serialize(destination=xml_path, format="xml"): the same classes, in
\* RDF/XML   (ontology_loader.py:59-61)
Converted(content) == FileContent(TRUE, FALSE, content.classes)

\* A mutation of the cache test: the file is fetched on every load.
Cached_never(dk, path) == FALSE

\* os.path.exists(path)   (ontology_loader.py:37, 56)
Cached(dk, path) == path \in DOMAIN dk

\* A mutation of the index: a label keeps only the class filed last.
FileUnder_replacing(index, label, c) == Put(index, label, <<c>>)

\* self.label_to_class[l].append(c)   (ontology_loader.py:92)
FileUnder(index, label, c) ==
    Put(index, label,
        IF label \in DOMAIN index THEN Append(index[label], c) ELSE <<c>>)

\* for l in lbls: ...   (ontology_loader.py:91-92); the labels are distinct
RECURSIVE FileLabels(_, _, _)
FileLabels(index, lbls, c) ==
    IF lbls = {} THEN index
    ELSE LET l == CHOOSE x \in lbls : TRUE
         IN  FileLabels(FileUnder(index, l, c), lbls \ {l}, c)

\* _add_labels_from_ontology(ontology), classes being ontology.classes()
\* in the order it yields them   (ontology_loader.py:78-92)
RECURSIVE add_labels_from_ontology(_, _)
add_labels_from_ontology(index, classes) ==
    IF classes = << >> THEN index
    ELSE add_labels_from_ontology(
             FileLabels(index, IndexLabels(Head(classes)), Head(classes)),
             Tail(classes))

\* loader.load_from_url(url)   (ontology_loader.py:21-76): what it can
\* return, with the cache directory and the label index it leaves and
\* whether it fetched and whether it ran the conversion.  The fetch
\* succeeds or fails, and ontology.classes() yields the classes in any
\* order.
XmlPath_same(local_path) == local_path

\* xml_path = local_path + ".xml"   (ontology_loader.py:55)
XmlPath(local_path) == local_path \o DotXml

load_from_url(url, dk, index) ==
    LET filename == DeriveFilename(url)
        fetch == ~Cached(dk, filename)
        Failed(d, converted) ==
            [onto |-> NoOntology, disk |-> d, index |-> index,
             fetched |-> fetch, converted |-> converted]
        Load(d) ==
            LET triples == EndsWith(filename, DotTtl) \/ EndsWith(filename, DotNt)
                xml_path == XmlPath(filename)
                convert == triples /\ ~Cached(d, xml_path)
                d2 == IF convert /\ d[filename].rdflib
                      THEN Put(d, xml_path, Converted(d[filename]))
                      ELSE d
                local_path == IF triples /\ Cached(d2, xml_path)
                              THEN xml_path ELSE filename
            IN  IF d2[local_path].owlready
                THEN { [onto |-> Ontology(d2[local_path].classes),
                        disk |-> d2,
                        index |-> add_labels_from_ontology(index, classes),
                        fetched |-> fetch, converted |-> convert]
                       : classes \in Orders(d2[local_path].classes) }
                ELSE { Failed(d2, convert) }
    IN  IF fetch
        THEN { Failed(dk, FALSE) } \cup Load(Put(dk, filename, RemoteContent(url)))
        ELSE Load(dk)

(***************************************************************************)
(* Operations of the validator                                             *)
(***************************************************************************)
NoFrame == [pc |-> "idle"]

\* self._dist_cache = {}; self._ancestors_cache = {}   (validation.py:36-37)
DistanceIdle ==
    /\ dist_cache = << >>
    /\ ancestors_cache = << >>
    /\ dcall = << >>
    /\ dret = 0
    /\ bfs = NoFrame
    /\ answered = "idle"

TermsIdle ==
    /\ tcall = [op |-> "init", term |-> << >>]
    /\ tret = None
    /\ consulted = FALSE

\* No validator was constructed.
NotConstructed ==
    /\ sources = << >>
    /\ ontologies = << >>
    /\ label_to_class = << >>

\* The validator was constructed on one URL, whose ontology holds the
\* hierarchy; no two of its classes share a label, so that the order of
\* ontology.classes() does not show in the index.
OneOntology ==
    /\ sources = << Ontology(DOMAIN is_a) >>
    /\ ontologies = sources
    /\ label_to_class = add_labels_from_ontology(<< >>, SomeOrder(DOMAIN is_a))

\* The cache directory and the URL list are not part of the run.
LoaderIdle ==
    /\ disk = << >>
    /\ todo = << >>
    /\ loads = << >>

ReportIdle ==
    /\ vnodes = {}
    /\ gcall = "init"
    /\ greport = None

\* No LinkPredictor was asked for a prediction.
PredictIdle ==
    /\ pcall = [op |-> "init", top_k |-> 0, method |-> "none"]
    /\ preds = << >>
    /\ pret = << >>

\* graph.py does not import validation.py: no validator exists.
NoValidator ==
    /\ is_a = << >>
    /\ DistanceIdle
    /\ known_terms = Vocabulary({}, 0)
    /\ use_rapidfuzz = FALSE
    /\ TermsIdle

\* A mutation of the vocabulary: a label no class is filed under.
get_term_labels_unfiled(h) ==
    UNION { { Lower(c) } : c \in DOMAIN h } \cup { <<"x", "x">> }

\* loader.get_term_labels(onto): the lower-cased names and rdfs:label
\* annotations of its classes   (ontology_loader.py:109-117)
get_term_labels(h) ==
    UNION { { Lower(c) } \cup { Lower(l) : l \in LabelsOf(c) } : c \in DOMAIN h }

\* GraphValidator(ontology_urls) whose ontologies hold some hierarchy
\* (validation.py:31-44).  _calculate_semantic_distance does not read
\* _USE_RAPIDFUZZ; the installation is the one with rapidfuzz.
ValidatorLoaded ==
    /\ is_a \in Hierarchies
    /\ DistanceIdle
    /\ known_terms = Vocabulary(get_term_labels(is_a), 0)
    /\ use_rapidfuzz = TRUE
    /\ TermsIdle

\* The labels of the vocabularies the model spells out.
neuro == <<"n", "e", "u", "r", "o">>

nn == <<"n", "n">>

Labels == { neuron, neuro, cortex, nn }

\* Numbers of further labels: around the thresholds 1000 and 10000 of
\* _choose_cutoff.
FillerSizes == { 0, 997, 1000, 9997, 10000 }

Vocabularies ==
    { Vocabulary(labels, filler) : labels \in SUBSET Labels, filler \in FillerSizes }

\* A validator whose ontologies hold classes of these names and no is-a link.
ValidatorWithVocabulary ==
    /\ known_terms \in Vocabularies
    /\ is_a = [c \in known_terms.labels |-> << >>]
    /\ DistanceIdle
    /\ use_rapidfuzz \in BOOLEAN
    /\ tret = None
    /\ consulted = FALSE

\* The terms validate_term is called on.
Words ==
    { neuron, <<"N", "e", "u", "r", "o", "n">>, <<"n", "e", "o", "r", "o", "n">>,
      <<"n", "e", "u", "r", "o", "n", "s">>, neuro, nn, <<"N", "N">>, <<"n">>,
      cortex, <<"c", "o", "r", "t", "x">>, <<"C", "o", "r", "t", "e", "x", " ">>,
      << >> }

\* The terms _choose_cutoff is called on: n letters between blanks.
Letters(n) == [i \in 1..n |-> "x"]

Blanks(n) == [i \in 1..n |-> " "]

PaddedTerms ==
    { Blanks(l) \o Letters(n) \o Blanks(r) :
        n \in 0..MaxTermLen, l \in 0..MaxPad, r \in 0..MaxPad }

Terms == PaddedTerms \cup Words

\* validator._choose_cutoff(term)
ChooseCutoff(term) ==
    /\ tcall' = [op |-> "_choose_cutoff", term |-> term]
    /\ tret' = choose_cutoff(term, known_terms)
    /\ consulted' = FALSE
    /\ UNCHANGED <<known_terms, use_rapidfuzz>>

\* validator.validate_term(term)
ValidateTerm(term) ==
    /\ \E out \in validate_term(term, known_terms, use_rapidfuzz) :
          /\ tret' = out.ret
          /\ consulted' = out.consulted
    /\ tcall' = [op |-> "validate_term", term |-> term]
    /\ UNCHANGED <<known_terms, use_rapidfuzz>>

\* How a call is answered: by the identity test, from the distance cache
\* or by a computation   (validation.py:174-182)
Answered(dc, cls_a, cls_b) ==
    IF cls_a = cls_b THEN "same"
    ELSE IF CacheKey(cls_a, cls_b) \in DOMAIN dc THEN "cached" ELSE "computed"

\* validator._calculate_semantic_distance(cls_a, cls_b)
Distance(cls_a, cls_b) ==
    /\ LET r == calculate_semantic_distance(is_a, dist_cache, ancestors_cache,
                                            cls_a, cls_b)
       IN  /\ dret' = r.ret
           /\ dist_cache' = r.dc
           /\ ancestors_cache' = r.ac
    /\ dcall' = <<cls_a, cls_b>>
    /\ UNCHANGED <<is_a, bfs>>

\* get_ancestors_dist(start_node), entered   (validation.py:185-191)
BfsEnter(start_node) ==
    /\ bfs.pc = "idle"
    /\ IF start_node \in DOMAIN ancestors_cache
       THEN bfs' = NoFrame
       ELSE bfs' = [pc |-> "loop", fr |-> BfsFrame(start_node)]
    /\ UNCHANGED <<is_a, dist_cache, ancestors_cache, dcall, dret>>

\* one iteration of its while loop   (validation.py:192-207)
BfsStep ==
    /\ bfs.pc = "loop"
    /\ bfs.fr.idx < Len(bfs.fr.queue)
    /\ bfs' = [bfs EXCEPT !.fr = BfsIteration(is_a, bfs.fr)]
    /\ UNCHANGED <<is_a, dist_cache, ancestors_cache, dcall, dret>>

\* the loop is left, the map cached and returned   (validation.py:209-211)
BfsReturn ==
    /\ bfs.pc = "loop"
    /\ bfs.fr.idx >= Len(bfs.fr.queue)
    /\ ancestors_cache' = Put(ancestors_cache, bfs.fr.start, bfs.fr.dists)
    /\ bfs' = NoFrame
    /\ UNCHANGED <<is_a, dist_cache, dcall, dret>>

\* The hierarchies of the graphs' validators: Brain is a root, neuron and
\* cortex each have no parent, a restriction, Brain or the other one.
ShallowHierarchies ==
    { [c \in Concepts |-> IF c = neuron THEN pn ELSE IF c = cortex THEN pc ELSE << >>]
      : pn \in { << >>, <<Restriction>>, <<Brain>>, <<cortex>> },
        pc \in { << >>, <<Restriction>>, <<Brain>>, <<neuron>> } }

\* The classes of a deeper ontology between neuron and Brain.
Chain ==
    << <<"u", "n", "i", "t">>, <<"t", "i", "s", "s", "u", "e">>,
       <<"s", "e", "c", "t", "i", "o", "n">>, <<"a", "x", "i", "s">> >>

\* A deeper hierarchy: neuron lies 5 is-a links below Brain along the
\* chain, and cortex is a child of the third class of the chain, 4 links
\* from neuron.
DeepHierarchy ==
    [c \in Concepts \cup Range(Chain) |->
        IF c = neuron THEN << Chain[1] >>
        ELSE IF c = cortex THEN << Chain[3] >>
        ELSE IF c = Brain THEN << >>
        ELSE IF c = Chain[Len(Chain)] THEN << Brain >>
        ELSE << Chain[(CHOOSE i \in DOMAIN Chain : Chain[i] = c) + 1] >>]

EdgeHierarchies == ShallowHierarchies \cup { DeepHierarchy }

\* The node names of the graphs handed to the validator: a label in another
\* case, the end of an IRI, a misspelt label and a name that is no concept's.
EdgeTerms ==
    { <<"N", "e", "u", "r", "o", "n">>, <<"e", "x">>,
      <<"b", "r", "a", "i", "n", "s">>, <<"x", "x">> }

\* What graph.edges() can yield: each edge once, the edges of a node
\* together, from a node to the nodes that follow it in the node order.
EdgeViews ==
    { view \in UNION { [1..k -> { e \in EdgeTerms \X EdgeTerms : e[1] # e[2] }]
                       : k \in 0..MaxEdges } :
        /\ \A i \in 1..Len(view) : \A j \in 1..Len(view) :
              {view[i][1], view[i][2]} = {view[j][1], view[j][2]} => i = j
        /\ \A i \in 1..Len(view) : \A j \in 1..Len(view) :
              view[j][1] = view[i][2] => i < j
        /\ \A i \in 1..Len(view) : \A k \in i..Len(view) : \A j \in i..k :
              view[i][1] = view[k][1] => view[j][1] = view[i][1] }

NoEdges ==
    /\ vgraph = << >>
    /\ ecall = "init"
    /\ ereport = None
    /\ elog = << >>

\* A validator with a loaded hierarchy and a graph to validate; rapidfuzz
\* is installed or it is not   (validation.py:23-28).
ValidatorWithGraph ==
    /\ is_a \in EdgeHierarchies
    /\ DistanceIdle
    /\ known_terms = Vocabulary(get_term_labels(is_a), 0)
    /\ use_rapidfuzz \in BOOLEAN
    /\ TermsIdle
    /\ vgraph \in EdgeViews
    /\ ecall = "init"
    /\ ereport = None
    /\ elog = << >>

\* Node names with the separator of the detail keys in them, next to the
\* names they are made of.
KeyTerms ==
    { <<"e", "x">>, <<"N", "e", "u", "r", "o", "n">>,
      <<"e", "x", "-", "-", "e", "x">>,
      <<"e", "x", "-", "-", "N", "e", "u", "r", "o", "n">> }

\* What graph.edges() can yield on graphs over these names.
KeyViews ==
    { view \in UNION { [1..k -> { e \in KeyTerms \X KeyTerms : e[1] # e[2] }]
                       : k \in 0..MaxEdges } :
        /\ \A i \in 1..Len(view) : \A j \in 1..Len(view) :
              {view[i][1], view[i][2]} = {view[j][1], view[j][2]} => i = j
        /\ \A i \in 1..Len(view) : \A j \in 1..Len(view) :
              view[j][1] = view[i][2] => i < j
        /\ \A i \in 1..Len(view) : \A k \in i..Len(view) : \A j \in i..k :
              view[i][1] = view[k][1] => view[j][1] = view[i][1] }

\* Its hierarchies: neuron and cortex each a root or a child of Brain.
KeyHierarchies ==
    { h \in ShallowHierarchies :
        \A c \in Concepts : h[c] \in { << >>, <<Brain>> } }

\* A validator with a loaded hierarchy and a graph over these names.
ValidatorWithKeys ==
    /\ is_a \in KeyHierarchies
    /\ DistanceIdle
    /\ known_terms = Vocabulary(get_term_labels(is_a), 0)
    /\ use_rapidfuzz \in BOOLEAN
    /\ TermsIdle
    /\ vgraph \in KeyViews
    /\ ecall = "init"
    /\ ereport = None
    /\ elog = << >>

\* validator.validate_edges(graph)
ValidateEdges ==
    /\ \E es \in validate_edges(vgraph, is_a, dist_cache, ancestors_cache,
                                known_terms, use_rapidfuzz) :
          /\ ereport' = es.report
          /\ elog' = es.log
          /\ dist_cache' = es.dc
          /\ ancestors_cache' = es.ac
    /\ ecall' = "validate_edges"
    /\ UNCHANGED <<vgraph, is_a, dcall, dret, bfs, tvars>>

(***************************************************************************)
(* GraphValidator.__init__ and validate_graph (validation.py:31-44,        *)
(* 277-307)                                                                *)
(***************************************************************************)
\* A mutation of the constructor: whatever load_from_url returns is kept.
IsOnto_always(onto) == TRUE

\* if onto:   (validation.py:42); load_from_url returns None when the
\* download or the parse fails   (ontology_loader.py:42-44, 74-76)
IsOnto(onto) == onto.ok

\* The label index after the loads that returned these ontologies, in
\* this order.
RECURSIVE IndexOfAll(_)
IndexOfAll(kept) ==
    IF kept = << >> THEN << >>
    ELSE add_labels_from_ontology(IndexOfAll(SubSeq(kept, 1, Len(kept) - 1)),
                                  SomeOrder(kept[Len(kept)].classes))

\* GraphValidator(ontology_urls), outcomes what load_from_url returns for
\* each URL and h the hierarchy the files hold: the ontologies kept, the
\* vocabulary gathered from them and the hierarchy the loader has indexed.
GraphValidator(outcomes, h) ==
    LET kept == SelectSeq(outcomes, IsOnto)
        classes == UNION { kept[i].classes : i \in DOMAIN kept }
    IN  [ontologies |-> kept,
         label_to_class |-> IndexOfAll(kept),
         known_terms |->
             Vocabulary(UNION { get_term_labels([c \in kept[i].classes |-> h[c]])
                                : i \in DOMAIN kept }, 0),
         is_a |-> [c \in classes |-> h[c]]]

\* A mutation of validate_graph: the ratio is taken on every graph.
Precision_unguarded(valid_nodes, total_nodes) ==
    [num |-> valid_nodes, den |-> total_nodes]

\* report["precision"]: 0.0, or valid_nodes / total_nodes
\* (validation.py:288, 300-301)
Precision(valid_nodes, total_nodes) ==
    IF total_nodes > 0
    THEN [num |-> valid_nodes, den |-> total_nodes]
    ELSE [num |-> 0, den |-> 1]

\* A mutation of validate_graph: the edges are validated in any case.
HasOntologies_always(onts) == TRUE

\* if self.ontologies:   (validation.py:304)
HasOntologies(onts) == onts # << >>

\* "edge_report": None   (validation.py:287)
NoEdgeReport == [present |-> FALSE]

EdgeReport(report) == [present |-> TRUE, report |-> report]

\* The node loop: what node_details can hold once every node is validated
\* (validation.py:292-294)
NodeDetails(nodes, kt, rapidfuzz) ==
    LET results == UNION { { <<n, r.ret>> : r \in validate_term(n, kt, rapidfuzz) }
                           : n \in nodes }
    IN  { d \in [nodes -> { r[2] : r \in results }] :
            \A n \in nodes : <<n, d[n]>> \in results }

\* validate_graph(graph): the reports it can return, with the caches and
\* the log of the edge loop.
validate_graph(nodes, view, onts, h, dc, ac, kt, rapidfuzz) ==
    LET total_nodes == Cardinality(nodes)
        Report(d, edge_report) ==
            LET valid_nodes == Cardinality({ n \in nodes : d[n].status = "valid" })
            IN  [total_nodes |-> total_nodes,
                 valid_nodes |-> valid_nodes,
                 invalid_nodes |-> total_nodes - valid_nodes,
                 node_details |-> d,
                 total_edges |-> Len(view),
                 edge_report |-> edge_report,
                 precision |-> Precision(valid_nodes, total_nodes)]
        details == NodeDetails(nodes, kt, rapidfuzz)
    IN  IF HasOntologies(onts)
        THEN { [report |-> Report(d, EdgeReport(es.report)), edges |-> TRUE,
                log |-> es.log, dc |-> es.dc, ac |-> es.ac]
               : d \in details,
                 es \in validate_edges(view, h, dc, ac, kt, rapidfuzz) }
        ELSE { [report |-> Report(d, NoEdgeReport), edges |-> FALSE,
                log |-> << >>, dc |-> dc, ac |-> ac]
               : d \in details }

\* The hierarchies the ontology files can hold: both concepts under Brain,
\* or three unrelated concepts.
ReportHierarchies ==
    { [c \in Concepts |-> IF c = Brain THEN << >> ELSE <<Brain>>],
      [c \in Concepts |-> << >>] }

\* What load_from_url can return for the URLs handed to the constructor: a
\* failure, an ontology without classes or the ontology of the concepts.
SourceOutcomes ==
    UNION { [1..k -> { NoOntology, Ontology({}), Ontology(Concepts) }]
            : k \in 0..MaxUrls }

\* The node names of the graphs handed to validate_graph: a label in
\* another case, a misspelt label and a name that is no concept's.
ReportTerms ==
    { <<"N", "e", "u", "r", "o", "n">>, <<"b", "r", "a", "i", "n", "s">>,
      <<"x", "x">> }

\* The graphs handed to validate_graph: their nodes and what graph.edges()
\* yields.
ReportGraphs ==
    { g \in [nodes : SUBSET ReportTerms,
             view : EdgeViews] :
        \A i \in 1..Len(g.view) : {g.view[i][1], g.view[i][2]} \subseteq g.nodes }

\* A validator as its constructor leaves it and a graph to validate;
\* rapidfuzz is installed or it is not   (validation.py:23-28).
ValidatorConstructed ==
    /\ sources \in SourceOutcomes
    /\ \E h \in ReportHierarchies :
          LET self == GraphValidator(sources, h)
          IN  /\ ontologies = self.ontologies
              /\ label_to_class = self.label_to_class
              /\ known_terms = self.known_terms
              /\ is_a = self.is_a
    /\ DistanceIdle
    /\ use_rapidfuzz \in BOOLEAN
    /\ TermsIdle
    /\ \E g \in ReportGraphs :
          /\ vnodes = g.nodes
          /\ vgraph = g.view
    /\ ecall = "init"
    /\ ereport = None
    /\ elog = << >>
    /\ gcall = "init"
    /\ greport = None

\* validator.validate_graph(graph)
ValidateGraph ==
    /\ \E r \in validate_graph(vnodes, vgraph, ontologies, is_a, dist_cache,
                                ancestors_cache, known_terms, use_rapidfuzz) :
          /\ greport' = r.report
          /\ elog' = r.log
          /\ ecall' = IF r.edges THEN "validate_edges" ELSE ecall
          /\ ereport' = IF r.edges THEN r.report.edge_report.report ELSE ereport
          /\ dist_cache' = r.dc
          /\ ancestors_cache' = r.ac
    /\ gcall' = "validate_graph"
    /\ UNCHANGED <<vnodes, vgraph, is_a, dcall, dret, bfs, tvars, ovars>>

\* The lists of URLs handed to the constructor.
UrlLists == UNION { [1..k -> Urls] : k \in 0..MaxUrls }

\* GraphValidator(ontology_urls) before its loop: a new loader, no
\* ontology, no term, and an empty cache directory   (validation.py:32-39)
ValidatorStarted ==
    /\ todo \in UrlLists
    /\ disk = << >>
    /\ loads = << >>
    /\ NotConstructed
    /\ NoValidator

\* One iteration of the constructor's loop   (validation.py:40-44)
LoadNext ==
    /\ todo # << >>
    /\ \E r \in load_from_url(Head(todo), disk, label_to_class) :
          /\ disk' = r.disk
          /\ label_to_class' = r.index
          /\ sources' = Append(sources, r.onto)
          /\ ontologies' = IF IsOnto(r.onto) THEN Append(ontologies, r.onto)
                           ELSE ontologies
          /\ known_terms' =
                IF IsOnto(r.onto)
                THEN Vocabulary(known_terms.labels \cup
                                  get_term_labels([c \in r.onto.classes |-> << >>]),
                                known_terms.filler)
                ELSE known_terms
          /\ is_a' = IF IsOnto(r.onto)
                     THEN [c \in (DOMAIN is_a) \cup r.onto.classes |-> << >>]
                     ELSE is_a
          /\ loads' = Append(loads, [url |-> Head(todo),
                                      filename |-> DeriveFilename(Head(todo)),
                                      fetched |-> r.fetched,
                                      converted |-> r.converted,
                                      ok |-> r.onto.ok])
    /\ todo' = Tail(todo)
    /\ UNCHANGED <<dist_cache, ancestors_cache, dcall, dret, bfs,
                   use_rapidfuzz, tcall, tret, consulted>>

\* The ontologies the sources UrlOwl and UrlTtl hold: the label "neuron" is
\* the name of a class of each.
LoadedLists ==
    { kept \in DistinctLists({ Ontology(RemoteContent(UrlOwl).classes),
                               Ontology(RemoteContent(UrlTtl).classes) }, 2) : TRUE }

\* The terms _get_ontology_class is called on: labels in either case, a
\* suffix of an IRI, misspelt labels and a name close to no label.
ResolveTerms ==
    { neuron, Neuron, <<"b", "r", "a", "i", "n">>, <<"u", "r", "o", "n">>,
      <<"t", "e", "x">>, neuro, <<"c", "o", "r", "t", "x">>,
      <<"n", "e", "u", "r", "o", "n", "x", "x", "x">>,
      <<"n", "e", "u", "r", "o", "n", "s">>, <<"x", "x">> }

\* A validator after its constructor, with the index the loads built, and
\* the term of the call to come.
ValidatorWithIndex ==
    /\ ontologies \in LoadedLists
    /\ sources = ontologies
    /\ label_to_class = IndexOfAll(ontologies)
    /\ LET self == GraphValidator(ontologies,
                                  [c \in Concepts \cup {Neuron} |-> << >>])
       IN  /\ known_terms = self.known_terms
           /\ is_a = self.is_a
    /\ DistanceIdle
    /\ use_rapidfuzz \in BOOLEAN
    /\ tcall \in { [op |-> "init", term |-> term] : term \in ResolveTerms }
    /\ tret = None
    /\ consulted = << >>

\* validator._get_ontology_class(term)
GetOntologyClass(term) ==
    /\ tcall.op = "init"
    /\ \E r \in get_ontology_class_steps(term, label_to_class, ontologies,
                                          known_terms, use_rapidfuzz) :
          /\ tret' = r.ret
          /\ consulted' = r.consulted
    /\ tcall' = [op |-> "_get_ontology_class", term |-> term]
    /\ UNCHANGED <<known_terms, use_rapidfuzz>>

(***************************************************************************)
(* LinkPredictor (link_predictor.py)                                       *)
(***************************************************************************)
\* nx.non_edges(g), which the predictors enumerate: a node is popped from
\* the set of nodes and paired with the remaining nodes that are not its
\* neighbours, until the set is empty; a set of strings is popped and
\* iterated in any order.
RECURSIVE non_edges(_, _)
non_edges(g, nodes) ==
    IF nodes = {} THEN { << >> }
    ELSE UNION { { [i \in 1..Len(vs) |-> <<u, vs[i]>>] \o rest
                   : vs \in Orders((nodes \ {u}) \ DOMAIN g[u]),
                     rest \in non_edges(g, nodes \ {u}) }
                 : u \in nodes }

\* G.degree(u) of a graph without self-loops
Degree(g, u) == Cardinality(DOMAIN g[u])

\* The score link_prediction.<method> gives the pair (u, v), as a fraction.
PredictionScore(method, g, u, v) ==
    IF method = "preferential_attachment"
    THEN [num |-> Degree(g, u) * Degree(g, v), den |-> 1]
    ELSE LET union_size == Cardinality((DOMAIN g[u]) \cup (DOMAIN g[v]))
         IN  IF union_size = 0 THEN [num |-> 0, den |-> 1]
             ELSE [num |-> Cardinality((DOMAIN g[u]) \cap (DOMAIN g[v])),
                   den |-> union_size]

\* A mutation of the predictor: it adds the pairs it scores to the graph.
Predictor_adding(method, g) ==
    { [preds |-> [i \in 1..Len(ebunch) |->
                    <<ebunch[i][1], ebunch[i][2],
                      PredictionScore(method, g, ebunch[i][1], ebunch[i][2])>>],
       graph |-> IF ebunch = << >> THEN g
                 ELSE nx_add_edge(g, ebunch[1][1], ebunch[1][2], 1)]
      : ebunch \in non_edges(g, Nodes(g)) }

\* list(eval(self.predictive_method)(nx_graph))   (link_predictor.py:11):
\* the triples (u, v, score) the predictor yields, and the graph, which the
\* predictor only reads.
Predictor(method, g) ==
    { [preds |-> [i \in 1..Len(ebunch) |->
                    <<ebunch[i][1], ebunch[i][2],
                      PredictionScore(method, g, ebunch[i][1], ebunch[i][2])>>],
       graph |-> g]
      : ebunch \in non_edges(g, Nodes(g)) }

\* A mutation of the sort: a triple is placed before the triples of equal
\* score.
InsertDescending_unstable(sorted, x) ==
    LET n == Cardinality({ i \in 1..Len(sorted) : ScoreGreater(sorted[i][3], x[3]) })
    IN  SubSeq(sorted, 1, n) \o <<x>> \o SubSeq(sorted, n + 1, Len(sorted))

\* One step of the stable sort by descending score: x goes behind the
\* triples whose score is not lower.
InsertDescending(sorted, x) ==
    LET n == Cardinality({ i \in 1..Len(sorted) : ~ScoreGreater(x[3], sorted[i][3]) })
    IN  SubSeq(sorted, 1, n) \o <<x>> \o SubSeq(sorted, n + 1, Len(sorted))

\* preds.sort(key=lambda x: x[2], reverse=True)   (link_predictor.py:12)
RECURSIVE SortDescending(_, _)
SortDescending(sorted, rest) ==
    IF rest = << >> THEN sorted
    ELSE SortDescending(InsertDescending(sorted, Head(rest)), Tail(rest))

\* preds[:top_k], top_k >= 0   (link_predictor.py:13)
Slice(list, top_k) == SubSeq(list, 1, Min(top_k, Len(list)))

\* LinkPredictor.predict(graph, top_k)   (link_predictor.py:8-13): what it
\* can return, with the list the predictor yielded and the graph after the
\* call.
predict(method, g, top_k) ==
    { [ret |-> Slice(SortDescending(<< >>, p.preds), top_k),
       preds |-> p.preds,
       graph |-> p.graph]
      : p \in Predictor(method, g) }

\* The node names of the graphs handed to the predictor.
PredictNodes == NodeNames \cup { <<"n">> }

\* The graphs Graph.add_edge builds over these names, without self-loops:
\* any set of edges, each added once or each added twice.
RECURSIVE GraphOf(_, _)
GraphOf(pairs, w) ==
    IF pairs = {} THEN EmptyGraph
    ELSE LET p == CHOOSE x \in pairs : TRUE
             u == CHOOSE x \in p : TRUE
             v == CHOOSE x \in p : x # u
         IN  nx_add_edge(GraphOf(pairs \ {p}, w), u, v, w)

PredictGraphs ==
    { GraphOf(pairs, w)
      : pairs \in SUBSET { p \in SUBSET PredictNodes : Cardinality(p) = 2 },
        w \in { 1, 2 } }

\* A LinkPredictor whose predictive_method names a predictor of networkx,
\* a graph and a top_k.
PredictorWithGraph ==
    /\ graph \in PredictGraphs
    /\ before = graph
    /\ last = [op |-> "init", arg |-> << >>]
    /\ calls = << >>
    /\ ingested = << >>
    /\ direct = FALSE
    /\ used = 0
    /\ pcall \in [op : { "init" }, top_k : 0..MaxK,
                  method : { "preferential_attachment", "jaccard_coefficient" }]
    /\ preds = << >>
    /\ pret = << >>

\* predictor.predict(graph, top_k)
Predict ==
    /\ \E r \in predict(pcall.method, graph, pcall.top_k) :
          /\ pret' = r.ret
          /\ preds' = r.preds
          /\ graph' = r.graph
    /\ before' = graph
    /\ pcall' = [pcall EXCEPT !.op = "predict"]
    /\ UNCHANGED <<last, calls, ingested, direct, used>>

(***************************************************************************)
(* Specifications                                                          *)
(***************************************************************************)
InitApi == GraphNew /\ NoValidator /\ NoEdges /\ NotConstructed /\ ReportIdle /\ PredictIdle /\ LoaderIdle

\* The calls a client makes on the Graph object itself.
NextApi ==
    \/ \E a \in NodeNames, b \in NodeNames : AddEdge(a, b)
    \/ \E k \in 0..MaxInput : \E names \in NameLists(k) : BuildRelations(names)

SpecApi == InitApi /\ [][NextApi /\ UNCHANGED <<dvars, tvars, evars, ovars, rvars, pvars, lvars, hvars>>]_vars

\* The pipeline: build_graph on the lists of items the extraction produces.
NextIngest ==
    \E k \in 0..(MaxInput - used) :
        \E items \in ItemListsOfCost[k] : BuildGraph(items, k)

SpecIngest == InitApi /\ [][NextIngest /\ UNCHANGED <<dvars, tvars, evars, ovars, rvars, pvars, lvars, hvars>>]_vars

\* One build_graph call on a new graph, the list of items drawn first.
InitOrder ==
    /\ GraphWithInput /\ NoValidator /\ NoEdges /\ NotConstructed
    /\ ReportIdle /\ PredictIdle /\ LoaderIdle

NextOrder == last.op = "init" /\ BuildGraph(last.arg, CostOf(last.arg))

SpecOrder ==
    InitOrder /\ [][NextOrder /\ UNCHANGED <<dvars, tvars, evars, ovars, rvars, pvars, lvars, hvars>>]_vars

\* Distance calls on a validator with a loaded hierarchy.
InitDist == GraphNew /\ ValidatorLoaded /\ NoEdges /\ OneOntology /\ ReportIdle /\ PredictIdle /\ LoaderIdle

NextDist ==
    \E cls_a \in DOMAIN is_a, cls_b \in DOMAIN is_a : Distance(cls_a, cls_b)

SpecDist == InitDist /\ [][NextDist /\ UNCHANGED <<gvars, tvars, evars, ovars, rvars, pvars, lvars, hvars>>]_vars

\* The distance calls, each with the way it was answered.
NextCache ==
    \E cls_a \in DOMAIN is_a, cls_b \in DOMAIN is_a :
        /\ Distance(cls_a, cls_b)
        /\ answered' = Answered(dist_cache, cls_a, cls_b)

SpecCache ==
    InitDist /\ [][NextCache /\ UNCHANGED <<gvars, tvars, evars, ovars, rvars, pvars, lvars>>]_vars

\* The ancestor traversal, one loop iteration at a time.  The interpreter
\* runs the loop on: an enabled iteration or return is eventually taken.
NextBfs ==
    \/ \E start_node \in DOMAIN is_a : BfsEnter(start_node)
    \/ BfsStep
    \/ BfsReturn

SpecBfs ==
    /\ InitDist
    /\ [][NextBfs /\ UNCHANGED <<gvars, tvars, evars, ovars, rvars, pvars, lvars, hvars>>]_vars
    /\ WF_vars(BfsStep /\ UNCHANGED <<gvars, tvars, evars, ovars, rvars, pvars, lvars, hvars>>)
    /\ WF_vars(BfsReturn /\ UNCHANGED <<gvars, tvars, evars, ovars, rvars, pvars, lvars, hvars>>)

\* Calls on a term of a validator with some vocabulary.  Neither method
\* writes to the validator; the term of a run is drawn at its start.
InitTerm ==
    /\ GraphNew
    /\ ValidatorWithVocabulary
    /\ NoEdges
    /\ OneOntology
    /\ ReportIdle
    /\ PredictIdle
    /\ LoaderIdle
    /\ tcall \in { [op |-> "init", term |-> term] : term \in Terms }

NextTerm ==
    \/ ChooseCutoff(tcall.term)
    \/ ValidateTerm(tcall.term)

SpecTerm == InitTerm /\ [][NextTerm /\ UNCHANGED <<gvars, dvars, evars, ovars, rvars, pvars, lvars, hvars>>]_vars

\* validate_edges on the graphs handed to a validator with a hierarchy.
InitEdges == GraphNew /\ ValidatorWithGraph /\ OneOntology /\ ReportIdle /\ PredictIdle /\ LoaderIdle

NextEdges == ValidateEdges

SpecEdges == InitEdges /\ [][NextEdges /\ UNCHANGED <<gvars, ovars, rvars, pvars, lvars, hvars>>]_vars

\* validate_edges on graphs whose node names hold the key separator.
InitKeys == GraphNew /\ ValidatorWithKeys /\ OneOntology /\ ReportIdle /\ PredictIdle /\ LoaderIdle

NextKeys == ValidateEdges

SpecKeys == InitKeys /\ [][NextKeys /\ UNCHANGED <<gvars, ovars, rvars, pvars, lvars, hvars>>]_vars

\* validate_graph on the graphs a constructed validator is handed.
InitReport == GraphNew /\ ValidatorConstructed /\ PredictIdle /\ LoaderIdle

NextReport == ValidateGraph

SpecReport == InitReport /\ [][NextReport /\ UNCHANGED <<gvars, pvars, lvars, hvars>>]_vars

\* predict on the graphs a LinkPredictor is handed.
InitPredict ==
    /\ PredictorWithGraph /\ NoValidator /\ NoEdges /\ NotConstructed
    /\ ReportIdle /\ LoaderIdle

NextPredict == Predict

SpecPredict ==
    InitPredict /\ [][NextPredict /\ UNCHANGED <<dvars, tvars, evars, ovars, rvars, lvars, hvars>>]_vars

\* Concept resolution on a validator with a label index.
InitResolve ==
    GraphNew /\ ValidatorWithIndex /\ NoEdges /\ ReportIdle /\ PredictIdle /\ LoaderIdle

NextResolve == GetOntologyClass(tcall.term)

SpecResolve ==
    InitResolve /\ [][NextResolve /\ UNCHANGED <<gvars, dvars, evars, ovars, rvars, pvars, lvars, hvars>>]_vars

\* The constructor of the validator, load by load.
InitLoad == GraphNew /\ ValidatorStarted /\ NoEdges /\ ReportIdle /\ PredictIdle

NextLoad == LoadNext

SpecLoad ==
    InitLoad /\ [][NextLoad /\ UNCHANGED <<gvars, evars, rvars, pvars, hvars>>]_vars

(***************************************************************************)
(* Claims about the graph                                                  *)
(***************************************************************************)
\* Weight of the edge {u, v}, 0 when the graph does not hold it.
WeightOrZero(g, u, v) == IF has_edge(g, u, v) THEN Weight(g, u, v) ELSE 0

\* C1: add_edge(a, b) on a graph that already holds the edge {a, b}, in
\* either endpoint order, increases the weight of that edge by exactly 1
\* (read in both orders), leaves the set and the number of edges unchanged;
\* on a graph that does not hold it, the edge is created with weight 1 and
\* the number of edges grows by 1.
C1_AddEdgeAccumulates ==
    last.op = "add_edge" =>
        LET a == last.arg[1]
            b == last.arg[2]
        IN  /\ has_edge(graph, a, b) /\ has_edge(graph, b, a)
            /\ Weight(graph, a, b) = Weight(graph, b, a)
            /\ IF has_edge(before, a, b) \/ has_edge(before, b, a)
               THEN /\ Weight(graph, a, b) = Weight(before, a, b) + 1
                    /\ Weight(graph, b, a) = Weight(before, b, a) + 1
                    /\ Edges(graph) = Edges(before)
                    /\ number_of_edges(graph) = number_of_edges(before)
               ELSE /\ Weight(graph, a, b) = 1
                    /\ Edges(graph) = Edges(before) \cup {{a, b}}
                    /\ number_of_edges(graph) = number_of_edges(before) + 1

\* C1 happens: add_edge(a, b) with a # b re-added an edge of weight 2.
C1_Witness ==
    /\ last.op = "add_edge"
    /\ last.arg[1] # last.arg[2]
    /\ has_edge(before, last.arg[2], last.arg[1])
    /\ Weight(before, last.arg[2], last.arg[1]) = 2
    /\ Weight(graph, last.arg[1], last.arg[2]) = 3

\* The names an ingested item can mention, normalized.
IngestedNames == UNION { EntitySet(ingested[i]) : i \in 1..Len(ingested) }

\* Number of ingested records whose entity set contains both a and b.
CoOccurrences(a, b) ==
    Cardinality({ i \in 1..Len(ingested) : {a, b} \subseteq EntitySet(ingested[i]) })

\* C2: after any sequence of build_graph calls from the empty graph, the
\* edge {a, b} exists exactly when some ingested record's entity set holds
\* both a and b, and its weight is the number of such records (so >= 1).
C2_WeightCountsCoOccurrences ==
    ~direct =>
        /\ \A a \in IngestedNames \cup Nodes(graph) :
             \A b \in (IngestedNames \cup Nodes(graph)) \ {a} :
                /\ has_edge(graph, a, b) <=> CoOccurrences(a, b) >= 1
                /\ has_edge(graph, a, b) =>
                     /\ Weight(graph, a, b) = CoOccurrences(a, b)
                     /\ Weight(graph, a, b) >= 1
        /\ \A e \in Edges(graph) : Cardinality(e) = 2

\* C2 happens: two records share a pair and a third, distinct record was
\* ingested; the shared edge has weight 2.
C2_Witness ==
    /\ ~direct
    /\ Len(ingested) >= 2
    /\ \E a \in Nodes(graph) : \E b \in Nodes(graph) \ {a} :
         has_edge(graph, a, b) /\ Weight(graph, a, b) = 2

\* The add_edge calls of the last call made for item i, as unordered pairs.
CallsFor(i) == { k \in 1..Len(calls) : calls[k].item = i }

PairOf(k) == {calls[k].source, calls[k].target}

TwoSubsets(S) == { e \in SUBSET S : Cardinality(e) = 2 }

\* C3: in a build_graph call, for every item whose entity set has n >= 2
\* names, add_edge is called exactly once for each of the C(n,2) unordered
\* pairs of that set and for nothing else; and the weight of every edge has
\* grown by the number of add_edge calls made for it (from 0 when new).
C3_OneCallPerPair ==
    last.op = "build_graph" =>
        /\ \A i \in 1..Len(last.arg) :
             LET S == EntitySet(last.arg[i])
                 n == Cardinality(S)
             IN  n >= 2 =>
                   /\ Cardinality(CallsFor(i)) = (n * (n - 1)) \div 2
                   /\ { PairOf(k) : k \in CallsFor(i) } = TwoSubsets(S)
                   /\ \A k \in CallsFor(i) : \A m \in CallsFor(i) :
                        PairOf(k) = PairOf(m) => k = m
        /\ \A a \in Nodes(graph) : \A b \in Nodes(graph) :
             WeightOrZero(graph, a, b) =
               WeightOrZero(before, a, b)
               + Cardinality({ k \in 1..Len(calls) : PairOf(k) = {a, b} })

\* C3 happens: a call ingested an item with three distinct names; three
\* add_edge calls were made for it and an edge it created has weight 1.
C3_Witness ==
    /\ last.op = "build_graph"
    /\ \E i \in 1..Len(last.arg) :
         /\ Cardinality(EntitySet(last.arg[i])) = 3
         /\ Cardinality(CallsFor(i)) = 3
         /\ \E k \in CallsFor(i) :
              Weight(graph, calls[k].source, calls[k].target) = 1

\* An item build_graph skips: no entities field, or fewer than 2 distinct
\* normalized entities.
Skipped(item) == ~item.has_entities \/ Cardinality(EntitySet(item)) < 2

\* C4: an item without entities field or with fewer than 2 distinct
\* normalized entities causes no add_edge call, and a build_graph call made
\* of such items only leaves nodes, edges and weights as they were.
C4_SkippedItemsChangeNothing ==
    last.op = "build_graph" =>
        /\ \A i \in 1..Len(last.arg) :
             Skipped(last.arg[i]) => CallsFor(i) = {}
        /\ (\A i \in 1..Len(last.arg) : Skipped(last.arg[i])) =>
             graph = before

\* C4 happens: on a graph with edges, a call ingested an item with two
\* mentions of one entity (equal after normalization) and nothing else that
\* could add an edge.
C4_Witness ==
    /\ last.op = "build_graph"
    /\ before # EmptyGraph
    /\ \A i \in 1..Len(last.arg) : Skipped(last.arg[i])
    /\ \E i \in 1..Len(last.arg) :
         /\ last.arg[i].has_entities
         /\ Len(last.arg[i].entities) = 2
         /\ last.arg[i].entities[1] # last.arg[i].entities[2]
    /\ graph = before

(***************************************************************************)
(* Claims about the semantic distance                                      *)
(***************************************************************************)
\* distance(a, b) called in the current state of the caches
DistanceNow(a, b) ==
    calculate_semantic_distance(is_a, dist_cache, ancestors_cache, a, b)

\* C5: in every state of the caches, distance(a, b) and distance(b, a)
\* return the same value, whether both are called on that state or one
\* after the other; and a call distance(b, a) made right after the last
\* call distance(a, b) returns what that call returned.
C5_DistanceSymmetric ==
    /\ \A a \in DOMAIN is_a : \A b \in DOMAIN is_a :
         LET r == DistanceNow(a, b)
         IN  /\ DistanceNow(b, a).ret = r.ret
             /\ calculate_semantic_distance(is_a, r.dc, r.ac, b, a).ret = r.ret
    /\ dcall # << >> => DistanceNow(dcall[2], dcall[1]).ret = dret

\* C5 happens: with another pair already cached, distance(a, b) returned 2
\* for a concept a and its grandparent b (0 hops from b, 2 hops from a).
C5_Witness ==
    /\ dcall # << >>
    /\ dcall[1] # dcall[2]
    /\ dret = 2
    /\ Cardinality(DOMAIN dist_cache) >= 2
    /\ dcall[2] \in DOMAIN ancestors_cache[dcall[1]]
    /\ ancestors_cache[dcall[1]][dcall[2]] = 2

\* The named direct parents of c: the is-a edges of the hierarchy.
IsAParents(c) == { p \in Range(is_a[c]) : p \in DOMAIN is_a }

\* The concepts k is-a edges above a.
RECURSIVE Level(_, _)
Level(a, k) ==
    IF k = 0 THEN {a} ELSE UNION { IsAParents(c) : c \in Level(a, k - 1) }

MaxHops == Cardinality(DOMAIN is_a)

\* Length of the shortest is-a path from a up to each of its ancestors, a
\* itself included at 0 hops.
HopsFrom(a) ==
    LET lv == [k \in 0..MaxHops |-> Level(a, k)]
    IN  [c \in UNION { lv[k] : k \in 0..MaxHops } |->
            CHOOSE k \in 0..MaxHops :
                c \in lv[k] /\ \A j \in 0..(k - 1) : c \notin lv[j]]

\* The ancestor set of a, a itself included.
AncestorSet(a) == DOMAIN HopsFrom(a)

SharedAncestors(a, b) == AncestorSet(a) \cap AncestorSet(b)

\* min over common ancestors c of Hops(a, c) + Hops(b, c)
LeastSumOf(ha, hb) ==
    LET shared == (DOMAIN ha) \cap (DOMAIN hb)
    IN  CHOOSE d \in { ha[c] + hb[c] : c \in shared } :
            \A c \in shared : d <= ha[c] + hb[c]

LeastSum(a, b) == LeastSumOf(HopsFrom(a), HopsFrom(b))

\* C6: for concepts a, b with a common ancestor, in every state of the
\* caches distance(a, b) is the least Hops(a, c) + Hops(b, c) over their
\* common ancestors c, each concept being its own ancestor at 0 hops; the
\* last call returned that value; and distance(x, x) = 0.
C6_DistanceIsLeastSum ==
    /\ LET hops == { <<c, HopsFrom(c)>> : c \in DOMAIN is_a }
           Hops(c) == (CHOOSE p \in hops : p[1] = c)[2]
       IN  \A a \in DOMAIN is_a : \A b \in DOMAIN is_a :
             (DOMAIN Hops(a)) \cap (DOMAIN Hops(b)) # {} =>
                 DistanceNow(a, b).ret = LeastSumOf(Hops(a), Hops(b))
    /\ \A x \in DOMAIN is_a : DistanceNow(x, x).ret = 0
    /\ (dcall # << >> /\ SharedAncestors(dcall[1], dcall[2]) # {}) =>
         dret = LeastSum(dcall[1], dcall[2])

\* C6 happens: the last call returned 1, computed afresh, for a concept and
\* its direct parent that is also its grandparent (reached in 1 and in 2
\* hops), so that a common ancestor with a larger sum exists too.
C6_Witness ==
    /\ dcall # << >>
    /\ dcall[1] # dcall[2]
    /\ dret = 1
    /\ dcall[2] \in Level(dcall[1], 1) \cap Level(dcall[1], 2)
    /\ \E c \in SharedAncestors(dcall[1], dcall[2]) :
         HopsFrom(dcall[1])[c] + HopsFrom(dcall[2])[c] >= 2

\* C8: while get_ancestors_dist runs, on any hierarchy (cyclic ones
\* included), no concept is in the queue twice, the queue holds exactly the
\* concepts that have a hop count, and the position never passes the end of
\* the queue; and every traversal that has entered the loop leaves it.
C8_TraversalTerminates ==
    /\ [](bfs.pc = "loop" =>
            /\ \A i \in 1..Len(bfs.fr.queue) : \A j \in 1..Len(bfs.fr.queue) :
                 bfs.fr.queue[i] = bfs.fr.queue[j] => i = j
            /\ Range(bfs.fr.queue) = DOMAIN bfs.fr.dists
            /\ bfs.fr.idx <= Len(bfs.fr.queue))
    /\ (bfs.pc = "loop" ~> bfs.pc = "idle")

\* Some concept is its own ancestor along one or more is-a edges.
Cyclic == \E c \in DOMAIN is_a : \E k \in 1..MaxHops : c \in Level(c, k)

\* C8 happens: on a hierarchy with a cycle through the start node, the
\* traversal has expanded every queued concept (three of them) and is about
\* to leave the loop.
C8_Witness ==
    /\ bfs.pc = "loop"
    /\ \E k \in 2..MaxHops : bfs.fr.start \in Level(bfs.fr.start, k)
    /\ Len(bfs.fr.queue) = 3
    /\ bfs.fr.idx = Len(bfs.fr.queue)


(***************************************************************************)
(* Claims about the classification of edges                                *)
(***************************************************************************)
Resolved(e) == e.cls_u # None /\ e.cls_v # None

\* C7: the distance of two concepts is infinite if and only if their
\* ancestor sets, each with the concept itself, are disjoint, in every state
\* of the caches and for every distance validate_edges computed; and every
\* edge whose endpoints resolved to two such concepts was classified
\* disconnected and counted neither as valid nor as weak.
C7_DisjointIsDisconnected ==
    /\ \A a \in DOMAIN is_a : \A b \in DOMAIN is_a :
         DistanceNow(a, b).ret = Inf <=> SharedAncestors(a, b) = {}
    /\ \A i \in 1..Len(elog) :
         Resolved(elog[i]) =>
            /\ elog[i].distance = Inf
                 <=> SharedAncestors(elog[i].cls_u, elog[i].cls_v) = {}
            /\ SharedAncestors(elog[i].cls_u, elog[i].cls_v) = {}
                 => elog[i].status = "disconnected"
    /\ ecall = "validate_edges" =>
         ereport.valid_rels + ereport.weak_rels
           <= Cardinality({ i \in 1..Len(elog) :
                  /\ Resolved(elog[i])
                  /\ SharedAncestors(elog[i].cls_u, elog[i].cls_v) # {} })

\* C7 happens: of two edges validate_edges went through, one has endpoints
\* resolved to concepts without a common ancestor and was classified
\* disconnected, the other was classified strong.
C7_Witness ==
    /\ ecall = "validate_edges"
    /\ Len(elog) = 2
    /\ \E i \in 1..2 : \E j \in 1..2 :
         /\ Resolved(elog[i])
         /\ elog[i].cls_u # elog[i].cls_v
         /\ SharedAncestors(elog[i].cls_u, elog[i].cls_v) = {}
         /\ elog[i].status = "disconnected"
         /\ ereport.details[EdgeKey(elog[i].u, elog[i].v)].distance = Inf
         /\ elog[j].status = "strong"
         /\ ereport.valid_rels = 1

(***************************************************************************)
(* Claims about the validation of terms                                    *)
(***************************************************************************)
Clamp(x, lo, hi) == IF x < lo THEN lo ELSE IF x > hi THEN hi ELSE x

\* The length adjustment L and the vocabulary adjustment V of the
\* specification.
LengthAdjustment(len) ==
    IF len <= 3 THEN 10
    ELSE IF len <= 6 THEN 5
    ELSE IF len >= 20 THEN 0 - 10
    ELSE 0

VocabularyAdjustment(size) ==
    IF size > 10000 THEN 5 ELSE IF size > 1000 THEN 2 ELSE 0

CutoffFor(len) ==
    Clamp(85 + LengthAdjustment(len) + VocabularyAdjustment(VocabSize(known_terms)),
          50, 98)

\* C9, as stated: for every term and every vocabulary size the adaptive
\* cutoff is clamp(85 + L + V, 50, 98), L taken from the length of the term
\* as it is passed; the result is an integer in [50, 98].
C9_CutoffByTermLength ==
    tcall.op = "_choose_cutoff" =>
        /\ tret = CutoffFor(Len(tcall.term))
        /\ tret \in 50..98

\* C9, amended: for every term and every vocabulary size the adaptive
\* cutoff is clamp(85 + L + V, 50, 98), L taken from the length of the term
\* without its leading and trailing whitespace; the result is an integer in
\* [50, 98].
C9_CutoffByStrippedLength ==
    tcall.op = "_choose_cutoff" =>
        /\ tret = CutoffFor(Len(Strip(tcall.term)))
        /\ tret \in 50..98

\* A padded term whose stripped length falls into another length class has
\* had its cutoff computed, and so has a short term in a vocabulary of more
\* than 10,000 labels, where the clamp binds.
C9_Witness ==
    /\ tcall.op = "_choose_cutoff"
    /\ \/ /\ Len(Strip(tcall.term)) = 3
          /\ Len(tcall.term) = 4
          /\ VocabSize(known_terms) <= 1000
          /\ tret = 95
       \/ /\ Len(tcall.term) <= 3
          /\ VocabSize(known_terms) > 10000
          /\ tret = 98

\* C10: for every term whose lower-cased form is in the vocabulary,
\* validate_term returns status valid, type exact and the lower-cased term
\* as match, and neither extractOne nor get_close_matches is called.
C10_ExactLookup ==
    (tcall.op = "validate_term" /\ Lower(tcall.term) \in known_terms.labels) =>
        /\ tret.status = "valid"
        /\ tret.type = "exact"
        /\ tret.match = Lower(tcall.term)
        /\ ~consulted

\* A term with a capital letter whose lower-cased form is in the vocabulary
\* has been validated, in a vocabulary that holds a second close label.
C10_Witness ==
    /\ tcall.op = "validate_term"
    /\ tcall.term # Lower(tcall.term)
    /\ Lower(tcall.term) \in known_terms.labels
    /\ neuro \in known_terms.labels
    /\ tret.type = "exact"

\* The vocabulary labels most similar to the lower-cased term, by the
\* normalized edit similarity 100 * 2 * LCS / (len(a) + len(b)).
MostSimilar(term) ==
    { l \in known_terms.labels :
        \A o \in known_terms.labels :
            ~ScoreGreater(fuzz_ratio(Lower(term), o), fuzz_ratio(Lower(term), l)) }

\* The best similarity reaches the adaptive cutoff of the term.
BestClearsCutoff(term) ==
    \E l \in MostSimilar(term) :
        ScoreAtLeast(fuzz_ratio(Lower(term), l), CutoffFor(Len(Strip(term))))

\* C11: for every term whose lower-cased form is not in the vocabulary,
\* validate_term returns {valid, fuzzy, match, score}, match a label of the
\* highest similarity and score that similarity, if and only if the best
\* similarity is at least the adaptive cutoff of the term; otherwise it
\* returns {invalid, none} with no match.
C11_FuzzyAcceptance ==
    (tcall.op = "validate_term" /\ Lower(tcall.term) \notin known_terms.labels) =>
        IF BestClearsCutoff(tcall.term)
        THEN /\ tret.status = "valid"
             /\ tret.type = "fuzzy"
             /\ tret.match \in MostSimilar(tcall.term)
             /\ tret.has_score
             /\ ScoreEqual(tret.score, fuzz_ratio(Lower(tcall.term), tret.match))
        ELSE tret = Invalid

\* C12: with a vocabulary that holds "neuron", validate_term("neoron")
\* returns status valid, type fuzzy and match "neuron".
C12_NeoronMatchesNeuron ==
    (/\ tcall.op = "validate_term"
     /\ tcall.term = <<"n", "e", "o", "r", "o", "n">>
     /\ neuron \in known_terms.labels) =>
        /\ tret.status = "valid"
        /\ tret.type = "fuzzy"
        /\ tret.match = neuron

(***************************************************************************)
(* Claims about the report of validate_graph                               *)
(***************************************************************************)
ValidNodes == { n \in vnodes : greport.node_details[n].status = "valid" }

\* C13: the precision validate_graph reports is valid_nodes / total_nodes,
\* with total_nodes the number of nodes of the graph and valid_nodes the
\* number of nodes whose validation is valid; on a graph without nodes it is
\* 0.0 and the call returns a report.
C13_Precision ==
    gcall = "validate_graph" =>
        /\ greport.total_nodes = Cardinality(vnodes)
        /\ greport.valid_nodes = Cardinality(ValidNodes)
        /\ greport.precision.den > 0
        /\ IF vnodes = {}
           THEN greport.precision.num = 0
           ELSE greport.precision.num * greport.total_nodes
                    = greport.valid_nodes * greport.precision.den

\* Two of three nodes are valid: the precision is 2/3.
C13_Witness ==
    /\ gcall = "validate_graph"
    /\ greport.total_nodes = 3
    /\ greport.valid_nodes = 2
    /\ greport.precision = [num |-> 2, den |-> 3]

\* The sources load_from_url loaded.
LoadedSources == { i \in DOMAIN sources : sources[i].ok }

\* C14: the report of validate_graph holds an edge report exactly when the
\* constructor loaded at least one ontology; the edge report is the one
\* validate_edges returns on the graph, and with no ontology loaded the
\* field is null.
C14_EdgeReportIffLoaded ==
    gcall = "validate_graph" =>
        IF LoadedSources # {}
        THEN /\ greport.edge_report.present
             /\ ecall = "validate_edges"
             /\ greport.edge_report.report = ereport
             /\ ereport.total_edges = Len(vgraph)
        ELSE /\ greport.edge_report = NoEdgeReport
             /\ ecall = "init"

\* One source failed and one loaded: the report holds the report of the
\* edges of the graph.
C14_Witness ==
    /\ gcall = "validate_graph"
    /\ LoadedSources # {}
    /\ LoadedSources # DOMAIN sources
    /\ vgraph # << >>
    /\ greport.edge_report.present
    /\ greport.edge_report.report.total_edges = Len(vgraph)

\* C15: when no source is configured or every source fails to load, the
\* vocabulary is empty, and validate_graph returns a report for any graph:
\* every node is invalid with match type none, valid_nodes is 0 and there is
\* no edge report.
C15_NoSourceLoaded ==
    LoadedSources = {} =>
        /\ known_terms = Vocabulary({}, 0)
        /\ gcall = "validate_graph" =>
              /\ DOMAIN greport.node_details = vnodes
              /\ \A n \in vnodes : greport.node_details[n] = Invalid
              /\ greport.valid_nodes = 0
              /\ greport.invalid_nodes = Cardinality(vnodes)
              /\ greport.edge_report = NoEdgeReport

\* Both sources failed and the graph has three nodes and an edge: three
\* invalid nodes and no edge report.
C15_Witness ==
    /\ Len(sources) = 2
    /\ LoadedSources = {}
    /\ gcall = "validate_graph"
    /\ Cardinality(vnodes) = 3
    /\ vgraph # << >>
    /\ greport.invalid_nodes = 3
    /\ greport.edge_report = NoEdgeReport

(***************************************************************************)
(* Claims about the report of validate_edges                               *)
(***************************************************************************)
\* The iterations of the edge loop that assigned one of the statuses.
EdgesWith(statuses) == { i \in 1..Len(elog) : elog[i].status \in statuses }

RECURSIVE SumDistance(_)
SumDistance(I) ==
    IF I = {} THEN 0
    ELSE LET i == CHOOSE x \in I : TRUE
         IN  elog[i].distance + SumDistance(I \ {i})

\* Sum of the distances over their number, 0.0 over no edge.
Mean(I) ==
    IF I = {} THEN [num |-> 0, den |-> 1]
    ELSE [num |-> SumDistance(I), den |-> Cardinality(I)]

\* C16: validate_edges classifies an edge unknown_nodes exactly when one of
\* its endpoints resolves to no concept; the edge then has no distance, in
\* the loop and in the details of the report, valid_rels and weak_rels count
\* resolved edges only, and avg_distance is the mean over resolved edges.
C16_UnknownNodes ==
    /\ \A i \in 1..Len(elog) :
         /\ elog[i].status = "unknown_nodes" <=> ~Resolved(elog[i])
         /\ ~Resolved(elog[i]) =>
              /\ elog[i].distance = NoDistance
              /\ ecall = "validate_edges" =>
                   ereport.details[EdgeKey(elog[i].u, elog[i].v)]
                     = [status |-> "unknown_nodes", distance |-> NoDistance]
    /\ ecall = "validate_edges" =>
         LET resolved == { i \in 1..Len(elog) : Resolved(elog[i]) }
         IN  /\ ereport.valid_rels + ereport.weak_rels <= Cardinality(resolved)
             /\ ereport.avg_distance
                  = Mean({ i \in resolved : elog[i].distance < Inf })

\* An edge with an endpoint that is no concept's name next to an edge of
\* distance 1: one unknown edge, one valid relation, an average of 1.
C16_Witness ==
    /\ ecall = "validate_edges"
    /\ Len(elog) = 2
    /\ \E i \in 1..2 : \E j \in 1..2 :
         /\ elog[i].cls_u # None
         /\ elog[i].cls_v = None
         /\ elog[i].status = "unknown_nodes"
         /\ elog[j].status = "strong"
         /\ elog[j].distance = 1
    /\ ereport.valid_rels = 1
    /\ ereport.avg_distance = [num |-> 1, den |-> 1]

\* The distance of two concepts of the hierarchy.
HierarchyDistance(a, b) ==
    IF SharedAncestors(a, b) = {} THEN Inf ELSE LeastSum(a, b)

\* C17: an edge whose endpoints both resolve, to concepts at distance d, is
\* strong exactly when d < 5, weak exactly when 5 <= d < infinity and
\* disconnected exactly when d is infinite; valid_rels is the number of
\* strong edges and weak_rels the number of weak edges.
C17_Thresholds ==
    /\ \A i \in 1..Len(elog) :
         Resolved(elog[i]) =>
            LET d == elog[i].distance
            IN  /\ d = HierarchyDistance(elog[i].cls_u, elog[i].cls_v)
                /\ elog[i].status = "strong" <=> d < 5
                /\ elog[i].status = "weak" <=> (5 <= d /\ d < Inf)
                /\ elog[i].status = "disconnected" <=> d = Inf
    /\ ecall = "validate_edges" =>
         /\ ereport.valid_rels = Cardinality(EdgesWith({"strong"}))
         /\ ereport.weak_rels = Cardinality(EdgesWith({"weak"}))

\* An edge of distance 4 and an edge of distance 5: one strong, one weak.
C17_Witness ==
    /\ ecall = "validate_edges"
    /\ Len(elog) = 2
    /\ \E i \in 1..2 : \E j \in 1..2 :
         /\ elog[i].distance = 4
         /\ elog[i].status = "strong"
         /\ elog[j].distance = 5
         /\ elog[j].status = "weak"
    /\ ereport.valid_rels = 1
    /\ ereport.weak_rels = 1

\* C18: avg_distance is the sum of the distances of the strong and weak
\* edges over their number, these being the edges with both endpoints
\* resolved and a finite distance, and 0.0 when there is none.
C18_AvgDistance ==
    ecall = "validate_edges" =>
        LET counted == EdgesWith({"strong", "weak"})
        IN  /\ counted = { i \in 1..Len(elog) :
                             Resolved(elog[i]) /\ elog[i].distance < Inf }
            /\ ereport.avg_distance.den > 0
            /\ IF counted = {}
               THEN ereport.avg_distance.num = 0
               ELSE ereport.avg_distance.num * Cardinality(counted)
                      = SumDistance(counted) * ereport.avg_distance.den

\* A strong edge of distance 4 and a weak edge of distance 5 average 9/2.
C18_Witness ==
    /\ ecall = "validate_edges"
    /\ EdgesWith({"strong"}) # {}
    /\ EdgesWith({"weak"}) # {}
    /\ ereport.avg_distance = [num |-> 9, den |-> 2]

(***************************************************************************)
(* Claims about the link predictor                                         *)
(***************************************************************************)
\* The place of the i-th enumerated triple in the stable descending order:
\* behind every triple of higher score and every earlier triple of equal
\* score.
Rank(i) ==
    1 + Cardinality({ j \in 1..Len(preds) : ScoreGreater(preds[j][3], preds[i][3]) })
      + Cardinality({ j \in 1..(i - 1) : ScoreEqual(preds[j][3], preds[i][3]) })

\* C19: predict(graph, k) returns at most k triples, in non-increasing
\* order of score: the first k of the stable descending sort of what the
\* predictor enumerated.  Triples of equal score keep the order of the
\* enumeration, and no omitted triple scores higher than a returned one.
C19_TopKStable ==
    pcall.op = "predict" =>
        /\ Len(pret) = Min(pcall.top_k, Len(preds))
        /\ \A p \in 1..Len(pret) :
             \E i \in 1..Len(preds) : Rank(i) = p /\ pret[p] = preds[i]
        /\ \A p \in 1..Len(pret) : \A q \in p..Len(pret) :
             ~ScoreGreater(pret[q][3], pret[p][3])
        /\ \A i \in 1..Len(preds) :
             Rank(i) > Len(pret) =>
                \A p \in 1..Len(pret) : ~ScoreGreater(preds[i][3], pret[p][3])

\* Three pairs are enumerated, the first with the lowest score and the
\* other two with equal scores; top_k = 2 returns the second and the third
\* in that order.
C19_Witness ==
    /\ pcall.op = "predict"
    /\ pcall.top_k = 2
    /\ Len(preds) = 3
    /\ ScoreGreater(preds[2][3], preds[1][3])
    /\ ScoreEqual(preds[2][3], preds[3][3])
    /\ pret = << preds[2], preds[3] >>

\* C20: predict(graph, k) leaves the graph as it was: the same nodes, the
\* same edges and the same weight on every edge, for every k.
C20_GraphUnchanged ==
    [][ pcall'.op = "predict" =>
          /\ Nodes(graph') = Nodes(graph)
          /\ Edges(graph') = Edges(graph)
          /\ \A u \in Nodes(graph) : \A v \in DOMAIN graph[u] :
               Weight(graph', u, v) = Weight(graph, u, v) ]_vars

\* predict returned two triples for a graph of four nodes with edges of
\* weight 2, and the graph is the one it was handed.
C20_Witness ==
    /\ pcall.op = "predict"
    /\ Len(pret) = 2
    /\ Cardinality(Nodes(graph)) = 4
    /\ \E u \in Nodes(graph) : \E v \in DOMAIN graph[u] : Weight(graph, u, v) = 2
    /\ graph = before

(***************************************************************************)
(* Claims about the loader                                                 *)
(***************************************************************************)
IsPrefix(s, t) == Len(s) <= Len(t) /\ SubSeq(t, 1, Len(s)) = s

\* The entries a load appended under a label.
Appended(label) ==
    IF label \in DOMAIN label_to_class
    THEN SubSeq(label_to_class'[label], Len(label_to_class[label]) + 1,
                Len(label_to_class'[label]))
    ELSE label_to_class'[label]

\* C21: a load leaves every list of the label index as a prefix of the list
\* after the load, so that earlier associations stay, in their order; a
\* load that returns an ontology appends each of its classes under its
\* lower-cased name and the ontology is appended to the list of loaded
\* ontologies, and a load that returns none leaves both as they were.
C21_LoadsOnlyAppend ==
    [][ loads' # loads =>
          /\ \A l \in DOMAIN label_to_class :
               /\ l \in DOMAIN label_to_class'
               /\ IsPrefix(label_to_class[l], label_to_class'[l])
          /\ IF loads'[Len(loads')].ok
             THEN /\ ontologies' = Append(ontologies, sources'[Len(sources')])
                  /\ \A c \in sources'[Len(sources')].classes :
                       /\ Lower(c) \in DOMAIN label_to_class'
                       /\ c \in Range(Appended(Lower(c)))
             ELSE /\ ontologies' = ontologies
                  /\ label_to_class' = label_to_class ]_vars

\* Two ontologies were loaded, and the class Neuron of the second is filed
\* under "neuron" behind the class neuron of the first.
C21_Witness ==
    /\ Len(ontologies) = 2
    /\ neuron \in DOMAIN label_to_class
    /\ label_to_class[neuron] = << neuron, Neuron >>

\* What a load of url can return and file, from a cache and an index.
Results(url, dk, index) ==
    { [onto |-> r.onto, index |-> r.index] : r \in load_from_url(url, dk, index) }

\* C22: a load that fails is skipped and isolated: the loop goes on with
\* the next source, the label index, the vocabulary and the loaded
\* ontologies stay as they were, and every source still to be loaded can
\* return and file exactly what it could had the failed source not been in
\* the list.
C22_FailedSourceSkipped ==
    [][ (loads' # loads /\ ~loads'[Len(loads')].ok) =>
          /\ todo' = Tail(todo)
          /\ label_to_class' = label_to_class
          /\ known_terms' = known_terms
          /\ ontologies' = ontologies
          /\ \A i \in 1..Len(todo') :
               Results(todo'[i], disk', label_to_class')
                 = Results(todo'[i], disk, label_to_class) ]_vars

\* C24: the cache directory never loses a file, and a load of a source
\* whose raw file is in the cache directory under the derived file name
\* performs no network fetch and leaves that file as it is, whether the
\* earlier load of the source was converted or parsed with success or not.
C24_CachedSourceNotFetched ==
    [][ loads' # loads =>
          /\ DOMAIN disk \subseteq DOMAIN disk'
          /\ DeriveFilename(Head(todo)) \in DOMAIN disk =>
               /\ ~loads'[Len(loads')].fetched
               /\ disk'[DeriveFilename(Head(todo))]
                    = disk[DeriveFilename(Head(todo))] ]_vars

\* The same source was loaded twice: the first load fetched it and failed
\* after the download, the second one fetched nothing.
C24_Witness ==
    /\ Len(loads) = 2
    /\ loads[1].url = loads[2].url
    /\ loads[1].fetched /\ ~loads[1].ok
    /\ loads[1].filename \in DOMAIN disk
    /\ ~loads[2].fetched

\* The loads that attempted the conversion of the source url.
Conversions(url) ==
    { i \in 1..Len(loads) : loads[i].url = url /\ loads[i].converted }

\* C25 as stated: over the loads of one source the conversion is attempted
\* at most once.
C25_ConvertedAtMostOnce ==
    \A url \in Urls : Cardinality(Conversions(url)) <= 1

\* C25, amended: a load attempts the conversion exactly when its raw file
\* is a .ttl or .nt file in the cache directory and no converted file is
\* beside it; once the converted file is there, it stays as it is, and
\* every later load attempts no conversion and parses the converted file.
C25_ConvertedUntilStored ==
    [][ loads' # loads =>
          LET f == DeriveFilename(Head(todo))
              x == f \o DotXml
              load == loads'[Len(loads')]
          IN  /\ load.converted <=>
                   /\ EndsWith(f, DotTtl) \/ EndsWith(f, DotNt)
                   /\ f \in DOMAIN disk'
                   /\ x \notin DOMAIN disk
              /\ x \in DOMAIN disk =>
                   /\ disk'[x] = disk[x]
                   /\ load.ok => sources'[Len(sources')].classes = disk[x].classes ]_vars

\* The same Turtle source was loaded twice: the first load converted it,
\* the second one parsed the stored conversion.
C25_Witness ==
    /\ Len(loads) = 2
    /\ loads[1].url = UrlTtl /\ loads[2].url = UrlTtl
    /\ loads[1].converted /\ loads[1].ok
    /\ ~loads[2].converted /\ loads[2].ok
    /\ XmlPath(loads[2].filename) \in DOMAIN disk

(***************************************************************************)
(* Claims about the distance cache                                         *)
(***************************************************************************)
\* distance(a, b) computed without the distance cache, the ancestor cache
\* being ac
Uncached(ac, a, b) ==
    calculate_semantic_distance(is_a, << >>, ac, a, b).ret

\* The pairs of distinct concepts a call on which looks up the key.
Producers(key) ==
    { p \in (DOMAIN is_a) \X (DOMAIN is_a) :
        p[1] # p[2] /\ CacheKey(p[1], p[2]) = key }

\* C23: over the distance calls on a fixed hierarchy, an entry written to
\* the distance cache holds the value an uncached computation returns for
\* each pair of concepts whose call looks up its key, and those pairs are
\* one pair of concepts in its two orders; an entry once written is never
\* removed or changed; and a call answered from the cache returns what
\* the computation of its pair returns when it goes past the distance
\* cache, and leaves the cache as it was.
C23_CacheHitsAreExact ==
    [][ /\ \A key \in (DOMAIN dist_cache') \ (DOMAIN dist_cache) :
             LET pairs == Producers(key)
             IN  /\ \E p \in pairs : pairs = { p, <<p[2], p[1]>> }
                 /\ \A p \in pairs : dist_cache'[key] = Uncached(<< >>, p[1], p[2])
        /\ \A key \in DOMAIN dist_cache :
             /\ key \in DOMAIN dist_cache'
             /\ dist_cache'[key] = dist_cache[key]
        /\ (answered' = "cached") =>
             /\ dret' = Uncached(ancestors_cache, dcall'[1], dcall'[2])
             /\ dist_cache' = dist_cache ]_vars

\* A call was answered from the cache, with the concepts in the order
\* opposite to the sorted key, while another pair was cached as well.
C23_Witness ==
    /\ answered = "cached"
    /\ CacheKey(dcall[1], dcall[2]) = <<id_of(dcall[2]), id_of(dcall[1])>>
    /\ dcall[1] # dcall[2]
    /\ dret = 2
    /\ Cardinality(DOMAIN dist_cache) >= 2

(***************************************************************************)
(* Claims about concept resolution                                         *)
(***************************************************************************)
Resolving == tcall.op = "_get_ontology_class"

\* The term of the last resolution is a key of the label index.
Listed == Lower(tcall.term) \in DOMAIN label_to_class

\* Some ontology has a class for the term, by label or by IRI suffix.
Searchable ==
    \E i \in 1..Len(ontologies) :
       \/ search_label(ClassesOf(ontologies[i]), Lower(tcall.term)) # {}
       \/ search_iri_suffix(ClassesOf(ontologies[i]), tcall.term) # {}

\* C26: resolution consults the label index, then the ontology search,
\* then the fuzzy fallback, and stops at the first that finds a class: a
\* term whose lower-cased form is a key of the index resolves to the first
\* class listed under it and nothing else is consulted; the search is
\* consulted exactly when the index has no such key, and the fuzzy
\* fallback exactly when, besides, the search finds nothing.
C26_ResolutionOrder ==
    Resolving =>
       /\ Listed =>
            /\ tret = label_to_class[Lower(tcall.term)][1]
            /\ consulted = <<"index">>
       /\ (~Listed /\ Searchable) =>
            /\ consulted = <<"index", "search">>
            /\ tret # None
       /\ (~Listed /\ ~Searchable) => consulted = <<"index", "search", "fuzzy">>

\* The term "Neuron" was resolved on an index that lists two classes under
\* "neuron", to the first of them, the class of the ontology loaded first.
C26_Witness ==
    /\ Resolving
    /\ tcall.term = Neuron
    /\ neuron \in DOMAIN label_to_class
    /\ Len(label_to_class[neuron]) = 2
    /\ tret = label_to_class[neuron][1]
    /\ tret \in ontologies[1].classes
    /\ tret # label_to_class[neuron][2]

\* The candidates of the fuzzy fallback for the term of the last call:
\* the best label with its score, and the score of the runner-up.
Candidates == extract2(Lower(tcall.term), known_terms)

\* The acceptance rule of the fuzzy fallback, on a candidate.
Accepted(cand) ==
    LET cutoff == choose_cutoff(Lower(tcall.term), known_terms)
    IN  \/ ScoreAtLeast(cand[2], cutoff)
        \/ /\ cand[3]
           /\ ScoreGap(cand[2], cand[4], 10)
           /\ ScoreAtLeast(cand[2], cutoff - 5)

\* C27: when resolution reaches the fuzzy fallback, it returns a class if
\* and only if the best-scoring label has a score >= cutoff, or there is a
\* runner-up and best - runner-up >= 10 and best >= cutoff - 5; the class
\* is then one filed under a best-scoring label, and otherwise the result
\* is none.
C27_FuzzyFallback ==
    (Resolving /\ consulted = <<"index", "search", "fuzzy">>) =>
       IF known_terms.labels = {} THEN tret = None
       ELSE /\ tret # None <=> \E cand \in Candidates : Accepted(cand)
            /\ tret # None =>
                 \E cand \in Candidates :
                    /\ Accepted(cand)
                    /\ tret = label_to_class[cand[1]][1]

(***************************************************************************)
(* Claims about the order of the input                                     *)
(***************************************************************************)
UpperChar(c) ==
    CASE c = "a" -> "A"
      [] c = "b" -> "B"
      [] c = "c" -> "C"
      [] OTHER -> c

\* The same name in upper case between blanks.
Respelt(raw) == <<" ">> \o [i \in 1..Len(raw) |-> UpperChar(raw[i])] \o <<" ">>

\* The list with its first two items exchanged.
Exchanged(items) ==
    IF Len(items) < 2 THEN items
    ELSE <<items[2], items[1]>> \o SubSeq(items, 3, Len(items))

\* The list with its first item moved to the end.
Rotated(items) ==
    IF items = << >> THEN items ELSE Tail(items) \o <<Head(items)>>

\* The item with its entities in the opposite order, the last one twice.
Shuffled(item) ==
    IF item.has_entities /\ item.entities # << >>
    THEN LET es == item.entities
             n == Len(es)
         IN  EntityItem(<<es[n]>> \o [k \in 1..n |-> es[n + 1 - k]])
    ELSE item

\* The item with every entity spelt in another case and between blanks.
RespeltItem(item) ==
    IF item.has_entities
    THEN EntityItem([k \in 1..Len(item.entities) |-> Respelt(item.entities[k])])
    ELSE item

\* The ingested records in other orders and spellings: the first two
\* exchanged, the first moved to the end, every record shuffled, every
\* record respelt.
Rearranged ==
    { Exchanged(ingested), Rotated(ingested),
      [k \in 1..Len(ingested) |-> Shuffled(ingested[k])],
      [k \in 1..Len(ingested) |-> RespeltItem(ingested[k])] }

\* C28: the graph build_graph has produced, its nodes, edges and weights,
\* is the graph it produces from the same records with the first two
\* exchanged and with the first moved to the end (the two rearrangements
\* every permutation is composed of), with the entities of the records in
\* another order and one of them repeated, and with the entities spelt in
\* another letter case and between blanks; every node is a normalized
\* name and no node has an edge to itself.
C28_OrderAndSpellingIrrelevant ==
    last.op = "build_graph" =>
        /\ \A items \in Rearranged :
             \A rs \in build_graph(Started(EmptyGraph), items, 1) :
                rs.graph = graph
        /\ \A n \in Nodes(graph) :
             /\ Normalize(n) = n
             /\ ~has_edge(graph, n, n)

\* Two records with different entity sets of two names each were
\* ingested, one name of which was not spelt in its normalized form, and
\* the graph has two edges.
C28_Witness ==
    /\ last.op = "build_graph"
    /\ Len(ingested) = 2
    /\ EntitySet(ingested[1]) # EntitySet(ingested[2])
    /\ \A i \in 1..2 : Cardinality(EntitySet(ingested[i])) = 2
    /\ \E k \in 1..Len(ingested[1].entities) :
         Normalize(ingested[1].entities[k]) # ingested[1].entities[k]
    /\ number_of_edges(graph) = 2

(***************************************************************************)
(* Claims relating validation and resolution                               *)
(***************************************************************************)
\* The nodes the last report classifies valid.
ValidInReport == { n \in vnodes : greport.node_details[n].status = "valid" }

\* C29: on a validator as its constructor leaves it, every node that
\* validate_graph reports valid, by an exact or by a fuzzy match, resolves
\* to a class in _get_ontology_class whatever result the searches yield;
\* hence no edge of the report between two valid nodes is unknown_nodes.
C29_ValidTermsResolve ==
    gcall = "validate_graph" =>
       /\ \A n \in ValidInReport :
            \A r \in get_ontology_class_steps(n, label_to_class, ontologies,
                                              known_terms, use_rapidfuzz) :
               r.ret # None
       /\ greport.edge_report.present =>
            \A i \in 1..Len(elog) :
               {elog[i].u, elog[i].v} \subseteq ValidInReport =>
                  /\ elog[i].status # "unknown_nodes"
                  /\ greport.edge_report.report.details[EdgeKey(elog[i].u, elog[i].v)].status
                       # "unknown_nodes"

\* The report has an edge between a node valid by an exact match and a node
\* valid by a fuzzy match, and a node that is not valid.
C29_Witness ==
    /\ gcall = "validate_graph"
    /\ greport.edge_report.present
    /\ ValidInReport # vnodes
    /\ \E i \in 1..Len(elog) :
         /\ {elog[i].u, elog[i].v} \subseteq ValidInReport
         /\ greport.node_details[elog[i].u].type # greport.node_details[elog[i].v].type
         /\ elog[i].status = "strong"

(***************************************************************************)
(* Claims about the details of the edge report                             *)
(***************************************************************************)
\* The entries of the details map with a status.
DetailsWith(status) ==
    { key \in DOMAIN ereport.details : ereport.details[key].status = status }

\* C30: the details map of the edge report has one entry per edge of the
\* graph: as many entries as total_edges, and valid_rels + weak_rels + the
\* number of disconnected entries + the number of unknown_nodes entries is
\* total_edges, whatever the node names are.
C30_OneEntryPerEdge ==
    ecall = "validate_edges" =>
       /\ ereport.total_edges = Len(vgraph)
       /\ Cardinality(DOMAIN ereport.details) = ereport.total_edges
       /\ ereport.valid_rels + ereport.weak_rels
            + Cardinality(DetailsWith("disconnected"))
            + Cardinality(DetailsWith("unknown_nodes")) = ereport.total_edges

====
